---- MODULE Spec2Model ----
(***************************************************************************)
(* Model of the VO/ES pairing, merge and validation pipeline of            *)
(* src/src/routes/processor.py (and the older src/src/tv_movie_processor.py*)
(* where a claim cites it).                                                *)
(*                                                                         *)
(* Python strings are modelled as tuples of one-character strings, so that *)
(* regular expressions, os.path functions and difflib are computed on the  *)
(* characters as the code computes them.  The letter N-tilde is written as *)
(* the single symbol "N~" (lower case "n~").                               *)
(***************************************************************************)
EXTENDS Integers, Sequences, FiniteSets, TLC

(***************************************************************************)
(* Bounds of the model                                                     *)
(***************************************************************************)
\* largest number of files on disk in one search
MaxFiles == 4
\* largest audio-stream count the probe tool reports
MaxAudio == 2
\* number of times the output-naming rule is re-applied to its own result
MaxRenames == 3

(***************************************************************************)
(* str: characters and basic string functions                              *)
(***************************************************************************)
\* "N~" and "A~" stand for the letters N and A with a tilde
UpperChars == <<"A","B","C","D","E","F","G","H","I","J","K","L","M","N","O","P","Q","R","S","T","U","V","W","X","Y","Z","N~","A~">>
LowerChars == <<"a","b","c","d","e","f","g","h","i","j","k","l","m","n","o","p","q","r","s","t","u","v","w","x","y","z","n~","a~">>
DigitChars == <<"0","1","2","3","4","5","6","7","8","9">>

\* Python None for an optional string, and for an optional integer
None == <<"<None>">>
NoNum == 0 - 1

\* truth value of an optional string: None and "" are both false
Truthy(s) == s # None /\ s # <<>>

IndexIn(c, t) ==
  IF \E i \in 1..Len(t) : t[i] = c THEN CHOOSE i \in 1..Len(t) : t[i] = c ELSE 0

lower_ch(c) == LET i == IndexIn(c, UpperChars) IN IF i = 0 THEN c ELSE LowerChars[i]

lower(s) == [i \in 1..Len(s) |-> lower_ch(s[i])]

isdigit(c) == IndexIn(c, DigitChars) # 0

\* \s of the re module
isspace(c) == c \in {" ", "\t"}

\* s[i:i+len(sub)] == sub, positions counted from 1
StartsAt(s, i, sub) ==
  /\ i >= 1
  /\ i + Len(sub) - 1 <= Len(s)
  /\ \A k \in 1..Len(sub) : s[i + k - 1] = sub[k]

\* sub in s
Contains(s, sub) == \E i \in 1..(Len(s) - Len(sub) + 1) : StartsAt(s, i, sub)

endswith(s, sub) == Len(sub) <= Len(s) /\ StartsAt(s, Len(s) - Len(sub) + 1, sub)

startswith(s, sub) == StartsAt(s, 1, sub)

\* s.rfind(c): last position of the character c, 0 when absent
rfind(s, c) ==
  IF \E i \in 1..Len(s) : s[i] = c
  THEN CHOOSE i \in 1..Len(s) : s[i] = c /\ \A j \in (i+1)..Len(s) : s[j] # c
  ELSE 0

\* s.find(c): first position of the character c, 0 when absent
find(s, c) ==
  IF \E i \in 1..Len(s) : s[i] = c
  THEN CHOOSE i \in 1..Len(s) : s[i] = c /\ \A j \in 1..(i-1) : s[j] # c
  ELSE 0

\* last position of the maximal run of digits that starts at i (i-1: no digit at i)
DigitRunEnd(s, i) ==
  IF i > Len(s) \/ i < 1 THEN i - 1
  ELSE IF \A j \in i..Len(s) : isdigit(s[j]) THEN Len(s)
  ELSE (CHOOSE j \in i..Len(s) : ~isdigit(s[j]) /\ \A k \in i..(j-1) : isdigit(s[k])) - 1

\* last position of the maximal run of whitespace that starts at i (i-1: none)
SpaceRunEnd(s, i) ==
  IF i > Len(s) \/ i < 1 THEN i - 1
  ELSE IF \A j \in i..Len(s) : isspace(s[j]) THEN Len(s)
  ELSE (CHOOSE j \in i..Len(s) : ~isspace(s[j]) /\ \A k \in i..(j-1) : isspace(s[k])) - 1

\* int(s) for a string of decimal digits
RECURSIVE int(_)
int(s) ==
  IF Len(s) = 0 THEN 0
  ELSE 10 * int(SubSeq(s, 1, Len(s) - 1)) + (IndexIn(s[Len(s)], DigitChars) - 1)

\* str(n) for n >= 0
RECURSIVE str(_)
str(n) ==
  IF n < 10 THEN <<DigitChars[n + 1]>>
  ELSE str(n \div 10) \o <<DigitChars[(n % 10) + 1]>>

\* f"{n:02d}"
Format02d(n) == IF n < 10 THEN <<"0">> \o str(n) ELSE str(n)

\* s.replace(a, b) for single characters
replace_ch(s, a, b) == [i \in 1..Len(s) |-> IF s[i] = a THEN b ELSE s[i]]

\* s.rstrip(c)
RECURSIVE rstrip(_, _)
rstrip(s, c) ==
  IF Len(s) > 0 /\ s[Len(s)] = c THEN rstrip(SubSeq(s, 1, Len(s) - 1), c) ELSE s

(***************************************************************************)
(* os.path (posixpath)                                                     *)
(***************************************************************************)
basename(p) == SubSeq(p, rfind(p, "/") + 1, Len(p))

dirname(p) ==
  LET head == SubSeq(p, 1, rfind(p, "/"))
  IN IF head # <<>> /\ \E i \in 1..Len(head) : head[i] # "/" THEN rstrip(head, "/") ELSE head

\* os.path.splitext(p): <<root, ext>>; leading dots of the name are no extension
splitext(p) ==
  LET sepIndex == rfind(p, "/")
      dotIndex == rfind(p, ".")
  IN IF dotIndex > sepIndex /\ \E k \in (sepIndex + 1)..(dotIndex - 1) : p[k] # "."
     THEN <<SubSeq(p, 1, dotIndex - 1), SubSeq(p, dotIndex, Len(p))>>
     ELSE <<p, <<>> >>

\* os.path.join(a, b)
join(a, b) ==
  IF startswith(b, <<"/">>) THEN b
  ELSE IF a = <<>> \/ endswith(a, <<"/">>) THEN a \o b
  ELSE a \o <<"/">> \o b

\* the components of p between slashes, empty components dropped
RECURSIVE SplitSlash(_)
SplitSlash(p) ==
  IF p = <<>> THEN <<>>
  ELSE LET i == find(p, "/")
       IN IF i = 0 THEN <<p>>
          ELSE IF i = 1 THEN SplitSlash(SubSeq(p, 2, Len(p)))
          ELSE <<SubSeq(p, 1, i - 1)>> \o SplitSlash(SubSeq(p, i + 1, Len(p)))

\* pathlib.Path(p).parts
PathParts(p) ==
  IF startswith(p, <<"/">>) THEN << <<"/">> >> \o SplitSlash(p) ELSE SplitSlash(p)

(***************************************************************************)
(* String constants of the source                                          *)
(***************************************************************************)
s_season == <<"s","e","a","s","o","n">>
s_episode == <<"e","p","i","s","o","d","e">>
s_ep == <<"e","p">>
s_e == <<"e">>
s_dot_en_dot == <<".","e","n",".">>
s_dot_eng_dot == <<".","e","n","g",".">>
s_dot_english_dot == <<".","e","n","g","l","i","s","h",".">>
s_dot_es_dot == <<".","e","s",".">>
s_dot_esp_dot == <<".","e","s","p",".">>
s_dot_spanish_dot == <<".","s","p","a","n","i","s","h",".">>
s_VOSE == <<"V","O","S","E">>
s_VO == <<"V","O">>
s_ESPANOL == <<"E","S","P","A","N~","O","L">>
s_ESP == <<"E","S","P">>
s_vose == <<"v","o","s","e">>
s_vo == <<"v","o">>
s_espanol == <<"e","s","p","a","n~","o","l">>
s_esp == <<"e","s","p">>
s_english == <<"e","n","g","l","i","s","h">>
s_original == <<"o","r","i","g","i","n","a","l">>
s_spanish == <<"s","p","a","n","i","s","h">>
s_es == <<"e","s">>
s_en == <<"e","n">>
s_eng == <<"e","n","g">>
s_dot_mkv == <<".","m","k","v">>
s_dot_mp4 == <<".","m","p","4">>
s_dot_avi == <<".","a","v","i">>
s_dot_en_es_dot == <<".","e","n",".","e","s",".">>
s_dot_en_es == <<".","e","n",".","e","s">>

(***************************************************************************)
(* extract_episode_info (processor.py 156-218)                             *)
(***************************************************************************)
\* the separator alternative (?:\.|\s|-)
IsTokenSep(c) == c = "." \/ isspace(c) \/ c = "-"

\* the rest of a token after its first number, which ends at d1: the letter mid, a
\* second number ending at d2, a separator and at least one more character
SecondNumberAt(b, d1, d2, mid) ==
  /\ d1 + 1 <= Len(b)
  /\ lower_ch(b[d1 + 1]) = mid
  /\ d2 >= d1 + 2
  /\ d2 + 2 <= Len(b)
  /\ IsTokenSep(b[d2 + 1])

\* (\d+)<mid>(\d+)(?:\.|\s|-)(.+) matches b from position p on, the first number
\* ending at d1
NumbersFrom(b, p, d1, mid) == d1 >= p /\ SecondNumberAt(b, d1, DigitRunEnd(b, d1 + 2), mid)

NumbersAt(b, p, mid) == NumbersFrom(b, p, DigitRunEnd(b, p), mid)

\* \.S(\d+)E(\d+)(?:\.|\s|-)(.+) matches b from position i on (re.IGNORECASE)
StandardTailAt(b, i) ==
  /\ i + 1 <= Len(b)
  /\ b[i] = "."
  /\ lower_ch(b[i + 1]) = "s"
  /\ NumbersAt(b, i + 2, "e")

\* \.(\d+)x(\d+)(?:\.|\s|-)(.+) matches b from position i on (re.IGNORECASE)
AltTailAt(b, i) ==
  /\ i + 1 <= Len(b)
  /\ b[i] = "."
  /\ NumbersAt(b, i + 1, "x")

NoMatch == [matched |-> FALSE, g1 |-> None, g2 |-> NoNum, g3 |-> NoNum, g4 |-> None]

\* the groups of a match whose dot is at i, whose first number is b[p..d1] and whose
\* second number ends at d2
MatchGroups2(b, i, p, d1, d2) ==
  [matched |-> TRUE,
   g1 |-> SubSeq(b, 1, i - 1),
   g2 |-> int(SubSeq(b, p, d1)),
   g3 |-> int(SubSeq(b, d1 + 2, d2)),
   g4 |-> SubSeq(b, d2 + 2, Len(b))]

MatchGroups1(b, i, p, d1) == MatchGroups2(b, i, p, d1, DigitRunEnd(b, d1 + 2))

MatchGroups(b, i, p) == MatchGroups1(b, i, p, DigitRunEnd(b, p))

\* re.search(r'(.+?)\.S(\d+)E(\d+)(?:\.|\s|-)(.+)', b, re.IGNORECASE):
\* the lazy group 1 stops at the first position where the rest matches
StandardGroups(b, i) == MatchGroups(b, i, i + 2)

standard_match(b) ==
  IF \E i \in 2..Len(b) : StandardTailAt(b, i)
  THEN StandardGroups(b, CHOOSE i \in 2..Len(b) :
                           StandardTailAt(b, i) /\ \A k \in 2..(i - 1) : ~StandardTailAt(b, k))
  ELSE NoMatch

\* re.search(r'(.+?)\.(\d+)x(\d+)(?:\.|\s|-)(.+)', b, re.IGNORECASE)
AltGroups(b, i) == MatchGroups(b, i, i + 1)

alt_match(b) ==
  IF \E i \in 2..Len(b) : AltTailAt(b, i)
  THEN AltGroups(b, CHOOSE i \in 2..Len(b) :
                      AltTailAt(b, i) /\ \A k \in 2..(i - 1) : ~AltTailAt(b, k))
  ELSE NoMatch

\* word\s*(\d+) at position j of f: the digits start at p and end at d (0: no match)
WordDigitsFrom(lf, j, word, p, d) == IF StartsAt(lf, j, word) /\ d >= p THEN d ELSE 0

WordDigitsSkip(f, lf, j, word, p) == WordDigitsFrom(lf, j, word, p, DigitRunEnd(f, p))

WordDigitsAt(f, lf, j, word) ==
  WordDigitsSkip(f, lf, j, word, SpaceRunEnd(f, j + Len(word)) + 1)

\* (?:Episode|Ep|E)\s*(\d+) at position j: the alternative that matches, tried in
\* this order (<<>>: none matches)
EpisodeWordAt(f, lf, j) ==
  IF WordDigitsAt(f, lf, j, s_episode) # 0 THEN s_episode
  ELSE IF WordDigitsAt(f, lf, j, s_ep) # 0 THEN s_ep
  ELSE IF WordDigitsAt(f, lf, j, s_e) # 0 THEN s_e
  ELSE <<>>

\* Season\s*(\d+).*?(?:Episode|Ep|E)\s*(\d+) matches f from position s on, the season
\* number being f[p..d1]
SeasonNumberAt(f, lf, s, p, d1) ==
  /\ StartsAt(lf, s, s_season)
  /\ d1 >= p
  /\ \E j \in (d1 + 1)..Len(f) : EpisodeWordAt(f, lf, j) # <<>>

SeasonSkip(f, lf, s, p) == SeasonNumberAt(f, lf, s, p, DigitRunEnd(f, p))

SeasonFolderAt(f, lf, s) == SeasonSkip(f, lf, s, SpaceRunEnd(f, s + 6) + 1)

\* the groups of the match: the season number is f[p..d1], the episode number starts
\* at e0
SeasonGroups3(f, p, d1, e0) ==
  [matched |-> TRUE, g1 |-> None,
   g2 |-> int(SubSeq(f, p, d1)),
   g3 |-> int(SubSeq(f, e0, DigitRunEnd(f, e0))),
   g4 |-> None]

\* the episode word starts at j
SeasonGroups2(f, lf, p, d1, j) ==
  SeasonGroups3(f, p, d1, SpaceRunEnd(f, j + Len(EpisodeWordAt(f, lf, j))) + 1)

\* .*? is lazy: the first position after the season number where an episode word matches
SeasonGroups1(f, lf, p, d1) ==
  SeasonGroups2(f, lf, p, d1,
                CHOOSE j \in (d1 + 1)..Len(f) :
                  /\ EpisodeWordAt(f, lf, j) # <<>>
                  /\ \A k \in (d1 + 1)..(j - 1) : EpisodeWordAt(f, lf, k) = <<>>)

SeasonGroups(f, lf, p) == SeasonGroups1(f, lf, p, DigitRunEnd(f, p))

SeasonFolderMatch(f, lf) ==
  IF \E s \in 1..Len(f) : SeasonFolderAt(f, lf, s)
  THEN SeasonGroups(f, lf,
         SpaceRunEnd(f, (CHOOSE s \in 1..Len(f) :
                           SeasonFolderAt(f, lf, s) /\ \A k \in 1..(s - 1) : ~SeasonFolderAt(f, lf, k))
                        + 6) + 1)
  ELSE NoMatch

\* re.search(r'Season\s*(\d+).*?(?:Episode|Ep|E)\s*(\d+)', filename, re.IGNORECASE)
season_folder_match(f) == SeasonFolderMatch(f, lower(f))

\* the language detected in the full path (processor.py 204-212)
detect_language(filename) ==
  LET fl == lower(filename)
  IN IF Contains(fl, s_dot_en_dot) \/ Contains(fl, s_dot_eng_dot) \/ Contains(fl, s_dot_english_dot)
       THEN s_en
     ELSE IF Contains(fl, s_dot_es_dot) \/ Contains(fl, s_dot_esp_dot) \/ Contains(fl, s_dot_spanish_dot)
       THEN s_es
     ELSE IF Contains(filename, s_VOSE) \/ Contains(filename, s_VO) THEN s_en
     ELSE IF Contains(filename, s_ESPANOL) \/ Contains(filename, s_ESP) THEN s_es
     ELSE None

\* the value returned for "no episode information"
NoInfo ==
  [found |-> FALSE, series_name |-> None, season_num |-> NoNum, episode_num |-> NoNum,
   quality |-> None, language |-> None]

\* lines 177-183: the fields after the standard pattern, m being its match
standard_fields(m) ==
  IF m.matched
  THEN [series_name |-> replace_ch(m.g1, ".", " "), season_num |-> m.g2,
        episode_num |-> m.g3, quality |-> m.g4]
  ELSE [series_name |-> None, season_num |-> NoNum, episode_num |-> NoNum, quality |-> None]

\* lines 185-191: the alternative pattern is tried when `not season_num`, that is when
\* no earlier pattern matched or the season it found is 0
alt_fields(a1, m) ==
  IF a1.season_num \in {NoNum, 0} /\ m.matched
  THEN [series_name |-> replace_ch(m.g1, ".", " "), season_num |-> m.g2,
        episode_num |-> m.g3, quality |-> m.g4]
  ELSE a1

\* lines 194-202: the season-folder pattern, on the full file name
folder_fields(a2, m, path_parts) ==
  IF a2.season_num \in {NoNum, 0} /\ m.matched
  THEN [series_name |-> IF Len(path_parts) > 2
                        THEN path_parts[Len(path_parts) - 2] ELSE a2.series_name,
        season_num |-> m.g2, episode_num |-> m.g3, quality |-> a2.quality]
  ELSE a2

\* lines 204-218: the value returned
episode_info(a3, filename) ==
  IF a3.season_num # NoNum /\ a3.episode_num # NoNum
  THEN [found |-> TRUE, series_name |-> a3.series_name, season_num |-> a3.season_num,
        episode_num |-> a3.episode_num, quality |-> a3.quality,
        language |-> detect_language(filename)]
  ELSE NoInfo

\* lines 174-202 for the base name of filename
base_name_fields(base_name) ==
  alt_fields(standard_fields(standard_match(base_name)), alt_match(base_name))

extract_episode_info(filename) ==
  episode_info(folder_fields(base_name_fields(splitext(basename(filename))[1]),
                             season_folder_match(filename), PathParts(filename)),
               filename)

\* the key f"S{season_num:02d}E{episode_num:02d}" (processor.py 363, 371)
EpisodeKey(info) == <<"S">> \o Format02d(info.season_num) \o <<"E">> \o Format02d(info.episode_num)

(***************************************************************************)
(* Output naming of transfer_audio_track (processor.py 526-534)            *)
(***************************************************************************)
\* the alternatives of the group (en|eng|english|es|esp|spanish), in the order tried
LanguageTags == <<s_en, s_eng, s_english, s_es, s_esp, s_spanish>>

\* length of the match of \.(en|eng|english|es|esp|spanish)\. at position i of s
\* (re.IGNORECASE), 0 when there is none
TagMatchLen(s, ls, i) ==
  IF i <= Len(s) /\ s[i] = "." /\
     \E t \in 1..Len(LanguageTags) :
        StartsAt(ls, i + 1, LanguageTags[t]) /\ StartsAt(ls, i + 1 + Len(LanguageTags[t]), <<".">>)
  THEN LET t == CHOOSE t \in 1..Len(LanguageTags) :
                  /\ StartsAt(ls, i + 1, LanguageTags[t])
                  /\ StartsAt(ls, i + 1 + Len(LanguageTags[t]), <<".">>)
                  /\ \A u \in 1..(t - 1) :
                       ~(StartsAt(ls, i + 1, LanguageTags[u]) /\
                         StartsAt(ls, i + 1 + Len(LanguageTags[u]), <<".">>))
       IN Len(LanguageTags[t]) + 2
  ELSE 0

\* re.sub(r'\.(en|eng|english|es|esp|spanish)\.', '.', s, flags=re.IGNORECASE) from
\* position i on: leftmost matches, not overlapping
RECURSIVE SubTagsFrom(_, _, _)
SubTagsFrom(s, ls, i) ==
  IF i > Len(s) THEN <<>>
  ELSE IF TagMatchLen(s, ls, i) > 0
       THEN <<".">> \o SubTagsFrom(s, ls, i + TagMatchLen(s, ls, i))
       ELSE <<s[i]>> \o SubTagsFrom(s, ls, i + 1)

strip_language_tags(s) == SubTagsFrom(s, lower(s), 1)

\* lines 526-532: the base name of the output file, from the base name of the VO file
tagged_output_base(output_base) ==
  IF ~Contains(lower(output_base), s_dot_en_es_dot)
  THEN rstrip(strip_language_tags(output_base), ".") \o s_dot_en_es
  ELSE output_base

\* lines 515-534: the output path of a merge of vo_mkv into destination_path (None:
\* the directory of vo_mkv)
output_file_name(vo_mkv, destination_path) ==
  LET output_base == splitext(basename(vo_mkv))[1]
      output_dir  == IF Truthy(destination_path) THEN destination_path ELSE dirname(vo_mkv)
  IN join(output_dir, tagged_output_base(output_base) \o s_dot_mkv)

(***************************************************************************)
(* difflib.SequenceMatcher(None, a, b).ratio() and get_file_similarity     *)
(* (processor.py 220-236).  No element is junk: isjunk is None and the     *)
(* automatic junk heuristic only applies to sequences of 200 elements or   *)
(* more.  A ratio 2*M/T is kept as the pair <<M, T>> and compared exactly. *)
(***************************************************************************)
\* length of the common run of a[i..ahi] and b[j..bhi]
RECURSIVE CommonRun(_, _, _, _, _, _)
CommonRun(a, i, ahi, b, j, bhi) ==
  IF i <= ahi /\ j <= bhi /\ a[i] = b[j] THEN 1 + CommonRun(a, i + 1, ahi, b, j + 1, bhi) ELSE 0

\* SequenceMatcher.find_longest_match: <<i, j, k>> with k maximal, then i minimal,
\* then j minimal
find_longest_match(a, alo, ahi, b, blo, bhi) ==
  LET run == [p \in (alo..ahi) \X (blo..bhi) |-> CommonRun(a, p[1], ahi, b, p[2], bhi)]
      best == IF DOMAIN run = {} THEN 0
              ELSE CHOOSE k \in {run[p] : p \in DOMAIN run} :
                     \A p \in DOMAIN run : run[p] <= k
  IN IF best = 0 THEN <<alo, blo, 0>>
     ELSE LET i == CHOOSE i \in alo..ahi :
                     /\ \E j \in blo..bhi : run[<<i, j>>] = best
                     /\ \A i2 \in alo..(i - 1) : \A j \in blo..bhi : run[<<i2, j>>] # best
              j == CHOOSE j \in blo..bhi :
                     /\ run[<<i, j>>] = best
                     /\ \A j2 \in blo..(j - 1) : run[<<i, j2>>] # best
          IN <<i, j, best>>

\* the total size of SequenceMatcher.get_matching_blocks()
RECURSIVE MatchCount(_, _, _, _, _, _)
MatchCount(a, alo, ahi, b, blo, bhi) ==
  IF alo > ahi \/ blo > bhi THEN 0
  ELSE LET m == find_longest_match(a, alo, ahi, b, blo, bhi)
       IN IF m[3] = 0 THEN 0
          ELSE m[3] + MatchCount(a, alo, m[1] - 1, b, blo, m[2] - 1)
                    + MatchCount(a, m[1] + m[3], ahi, b, m[2] + m[3], bhi)

\* SequenceMatcher(None, a, b).ratio() = 2.0 * M / T, and 1.0 when T = 0
ratio(a, b) ==
  IF Len(a) + Len(b) = 0 THEN <<1, 2>>
  ELSE <<MatchCount(a, 1, Len(a), b, 1, Len(b)), Len(a) + Len(b)>>

\* r1 > r2 for two ratios
RatioGreater(r1, r2) == r1[1] * r2[2] > r2[1] * r1[2]

\* r > n/10 for a ratio r
RatioAbove(r, tenths) == 2 * r[1] * 10 > tenths * r[2]

\* the initial best_similarity = 0
ZeroRatio == <<0, 1>>

get_file_similarity(file1, file2) ==
  ratio(splitext(basename(file1))[1], splitext(basename(file2))[1])

(***************************************************************************)
(* is_path_allowed (processor.py 238-256)                                  *)
(***************************************************************************)
\* MEDIA_ROOT of the application configuration (get_media_root, processor.py 34-51)
MediaRoot == <<"/","m">>

s_dotdot == <<".",".">>
s_dot == <<".">>

\* the loop of posixpath.normpath over the components (empty ones already dropped)
RECURSIVE NormComps(_, _, _)
NormComps(comps, new_comps, initial_slashes) ==
  IF comps = <<>> THEN new_comps
  ELSE LET comp == Head(comps)
       IN IF comp = s_dot THEN NormComps(Tail(comps), new_comps, initial_slashes)
          ELSE IF \/ comp # s_dotdot
                  \/ (initial_slashes = 0 /\ new_comps = <<>>)
                  \/ (new_comps # <<>> /\ new_comps[Len(new_comps)] = s_dotdot)
               THEN NormComps(Tail(comps), Append(new_comps, comp), initial_slashes)
          ELSE IF new_comps # <<>>
               THEN NormComps(Tail(comps), SubSeq(new_comps, 1, Len(new_comps) - 1), initial_slashes)
          ELSE NormComps(Tail(comps), new_comps, initial_slashes)

\* '/'.join(comps)
RECURSIVE JoinSlash(_)
JoinSlash(comps) ==
  IF comps = <<>> THEN <<>>
  ELSE IF Len(comps) = 1 THEN comps[1]
  ELSE comps[1] \o <<"/">> \o JoinSlash(Tail(comps))

\* os.path.normpath(path)
normpath(path) ==
  IF path = <<>> THEN s_dot
  ELSE LET initial_slashes ==
             IF ~startswith(path, <<"/">>) THEN 0
             ELSE IF startswith(path, <<"/","/">>) /\ ~startswith(path, <<"/","/","/">>) THEN 2
             ELSE 1
           joined == JoinSlash(NormComps(SplitSlash(path), <<>>, initial_slashes))
           result == [i \in 1..initial_slashes |-> "/"] \o joined
       IN IF result = <<>> THEN s_dot ELSE result

\* is_path_allowed with the prefix test of line 256 made without os.sep
is_path_allowed_prefix(path) == startswith(normpath(path), normpath(MediaRoot))

\* lines 248-256
is_path_allowed(path) ==
  LET norm_path == normpath(path)
      norm_media_root == normpath(MediaRoot)
  IN norm_path = norm_media_root \/ startswith(norm_path, norm_media_root \o <<"/">>)

(***************************************************************************)
(* Classification and filters of search_for_vo_and_es_files                *)
(* (processor.py 291-347)                                                  *)
(***************************************************************************)
\* line 316: file.lower().endswith(('.mkv', '.mp4', '.avi'))
is_video_file(file) ==
  LET lf == lower(file)
  IN endswith(lf, s_dot_mkv) \/ endswith(lf, s_dot_mp4) \/ endswith(lf, s_dot_avi)

\* line 292/330: any(re.search(pattern, file, re.IGNORECASE) for pattern in vo_patterns)
matches_vo_patterns(file) ==
  LET lf == lower(file)
  IN \/ Contains(lf, s_dot_en_dot) \/ Contains(lf, s_dot_eng_dot)
     \/ Contains(lf, s_dot_english_dot) \/ Contains(lf, s_vose) \/ Contains(lf, s_vo)

\* line 293/331: any(re.search(pattern, file, re.IGNORECASE) for pattern in es_patterns)
matches_es_patterns(file) ==
  LET lf == lower(file)
  IN \/ Contains(lf, s_dot_es_dot) \/ Contains(lf, s_dot_esp_dot)
     \/ Contains(lf, s_dot_spanish_dot) \/ Contains(lf, s_espanol) \/ Contains(lf, s_esp)

\* file_role with the directory words consulted before the markers of the file name
file_role_directory_first(root, file) ==
  IF Contains(lower(root), s_english) \/ Contains(lower(root), s_vo) \/ Contains(lower(root), s_original)
  THEN "vo"
  ELSE IF Contains(lower(root), s_spanish) \/ Contains(lower(root), s_es) \/ Contains(lower(root), s_espanol)
  THEN "es"
  ELSE IF matches_vo_patterns(file) THEN "vo"
  ELSE IF matches_es_patterns(file) THEN "es"
  ELSE "vo"

\* lines 329-347: the list a file of directory root is appended to, "vo" or "es"
\* ("none": neither, which the if/elif of lines 344-347 would leave out)
file_role(root, file) ==
  LET is_vo0 == matches_vo_patterns(file)
      is_es0 == matches_es_patterns(file)
      lr == lower(root)
      is_vo == IF ~is_vo0 /\ ~is_es0
               THEN IF Contains(lr, s_english) \/ Contains(lr, s_vo) \/ Contains(lr, s_original)
                    THEN TRUE
                    ELSE IF Contains(lr, s_spanish) \/ Contains(lr, s_es) \/ Contains(lr, s_espanol)
                    THEN FALSE
                    ELSE TRUE
               ELSE is_vo0
      is_es == IF ~is_vo0 /\ ~is_es0
               THEN ~(Contains(lr, s_english) \/ Contains(lr, s_vo) \/ Contains(lr, s_original))
                    /\ (Contains(lr, s_spanish) \/ Contains(lr, s_es) \/ Contains(lr, s_espanol))
               ELSE is_es0
  IN IF is_vo THEN "vo" ELSE IF is_es THEN "es" ELSE "none"

\* line 305/322: re.compile(re.escape(series), re.IGNORECASE).search(s)
series_pattern_search(series, s) == Contains(lower(s), lower(series))

\* line 298: S0*{season}|Season\s*{season}|{season}x\d+ matches s at position i
SeasonPatternAt(season, s, ls, i) ==
  LET n == str(season)
  IN \/ /\ StartsAt(ls, i, <<"s">>)
        /\ \E z \in 0..Len(s) :
             /\ \A k \in 1..z : StartsAt(s, i + k, <<"0">>)
             /\ StartsAt(s, i + 1 + z, n)
     \/ /\ StartsAt(ls, i, s_season)
        /\ StartsAt(s, SpaceRunEnd(s, i + 6) + 1, n)
     \/ /\ StartsAt(s, i, n)
        /\ StartsAt(ls, i + Len(n), <<"x">>)
        /\ i + Len(n) + 1 <= Len(s)
        /\ isdigit(s[i + Len(n) + 1])

\* line 326: season_pattern.search(s)
season_pattern_search(season, s) ==
  LET ls == lower(s) IN \E i \in 1..Len(s) : SeasonPatternAt(season, s, ls, i)

\* lines 321-327: the file passes the series and season filters (None, NoNum: no filter)
passes_filters(series, season, root, file) ==
  /\ series = None \/ series_pattern_search(series, file) \/ series_pattern_search(series, root)
  /\ season = NoNum \/ season_pattern_search(season, file) \/ season_pattern_search(season, root)

(***************************************************************************)
(* Group key of the fuzzy phase (processor.py 389-396, 401-408)            *)
(***************************************************************************)
\* (?:\.S\d+|\.E\d+|\.\d+x\d+) matches b at position i (case-sensitive)
GroupTokenAt(b, i) ==
  /\ i + 1 <= Len(b)
  /\ b[i] = "."
  /\ \/ (b[i + 1] \in {"S", "E"} /\ i + 2 <= Len(b) /\ isdigit(b[i + 2]))
     \/ LET d == DigitRunEnd(b, i + 1)
        IN d >= i + 1 /\ d + 2 <= Len(b) /\ b[d + 1] = "x" /\ isdigit(b[d + 2])

\* base_name.split('.')[0]
first_dot_segment(b) == IF find(b, ".") = 0 THEN b ELSE SubSeq(b, 1, find(b, ".") - 1)

group_key(path) ==
  LET base_name == basename(path)
  IN IF \E i \in 2..Len(base_name) : GroupTokenAt(base_name, i)
     THEN lower(SubSeq(base_name, 1,
                 (CHOOSE i \in 2..Len(base_name) :
                    GroupTokenAt(base_name, i) /\ \A k \in 2..(i - 1) : ~GroupTokenAt(base_name, k)) - 1))
     ELSE lower(first_dot_segment(base_name))

(***************************************************************************)
(* Python dict with insertion order: a sequence of [key, val] records with *)
(* distinct keys; assigning to an existing key keeps its position.         *)
(***************************************************************************)
DictHas(d, k) == \E i \in 1..Len(d) : d[i].key = k

DictGet(d, k) == d[CHOOSE i \in 1..Len(d) : d[i].key = k].val

DictPut(d, k, v) ==
  IF DictHas(d, k)
  THEN [i \in 1..Len(d) |-> IF d[i].key = k THEN [key |-> k, val |-> v] ELSE d[i]]
  ELSE Append(d, [key |-> k, val |-> v])

DictKeys(d) == {d[i].key : i \in 1..Len(d)}

\* defaultdict(list): d[k].append(v)
DictAppend(d, k, v) ==
  IF DictHas(d, k) THEN DictPut(d, k, Append(DictGet(d, k), v)) ELSE DictPut(d, k, <<v>>)

\* list.remove(x): removes the first occurrence
ListRemove(l, x) ==
  LET i == CHOOSE i \in 1..Len(l) : l[i] = x /\ \A j \in 1..(i - 1) : l[j] # x
  IN SubSeq(l, 1, i - 1) \o SubSeq(l, i + 1, Len(l))

Range(l) == {l[i] : i \in 1..Len(l)}

\* all orderings of a finite set
RECURSIVE Perms(_)
Perms(S) ==
  IF S = {} THEN { <<>> }
  ELSE UNION {{<<x>> \o p : p \in Perms(S \ {x})} : x \in S}

(***************************************************************************)
(* Exact phase of search_for_vo_and_es_files (processor.py 351-381)        *)
(***************************************************************************)
\* lines 358-372: key -> last file of the list that carries the key
RECURSIVE episode_index(_, _)
episode_index(files, acc) ==
  IF files = <<>> THEN acc
  ELSE LET info == extract_episode_info(Head(files))
       IN episode_index(Tail(files),
                        IF info.found THEN DictPut(acc, EpisodeKey(info), Head(files)) ELSE acc)

\* the exact phase without the test "key in es_info": an entry for every VO key
exact_matches_every_vo_key(vo_info, es_info) ==
  [i \in 1..Len(vo_info) |->
     [key |-> vo_info[i].key,
      val |-> [vo |-> vo_info[i].val,
               es |-> IF DictHas(es_info, vo_info[i].key)
                      THEN DictGet(es_info, vo_info[i].key) ELSE None]]]

\* the exact phase pairing the two indexes by position instead of by key
exact_matches_by_position(vo_info, es_info) ==
  LET both == SelectSeq(vo_info, LAMBDA e : DictHas(es_info, e.key))
      es_both == SelectSeq(es_info, LAMBDA e : DictHas(vo_info, e.key))
  IN [i \in 1..Len(both) |->
        [key |-> both[i].key, val |-> [vo |-> both[i].val, es |-> es_both[i].val]]]

\* lines 374-377: one entry for every key of vo_info that is also in es_info
exact_matches(vo_info, es_info) ==
  LET both == SelectSeq(vo_info, LAMBDA e : DictHas(es_info, e.key))
  IN [i \in 1..Len(both) |->
        [key |-> both[i].key, val |-> [vo |-> both[i].val, es |-> DictGet(es_info, both[i].key)]]]

\* lines 380-381: the files left for the fuzzy phase
remaining_files(files, matched, side) ==
  SelectSeq(files, LAMBDA f : ~\E i \in 1..Len(matched) : matched[i].val[side] = f)

(***************************************************************************)
(* Fuzzy phase of search_for_vo_and_es_files (processor.py 383-440)        *)
(***************************************************************************)
\* lines 384-409: group key -> files, in order of first appearance
RECURSIVE group_files(_, _)
group_files(files, acc) ==
  IF files = <<>> THEN acc
  ELSE group_files(Tail(files), DictAppend(acc, group_key(Head(files)), Head(files)))

\* lines 414-421: the ES group chosen for a VO group key (None: no group), scanning
\* es_groups from position i on with the best found so far
RECURSIVE best_es_group_from(_, _, _, _, _)
best_es_group_from(gkey, es_groups, i, best_es_group, best_similarity) ==
  IF i > Len(es_groups) THEN best_es_group
  ELSE LET similarity == ratio(gkey, es_groups[i].key)
       IN IF RatioGreater(similarity, best_similarity) /\ RatioAbove(similarity, 6)
          THEN best_es_group_from(gkey, es_groups, i + 1, es_groups[i].key, similarity)
          ELSE best_es_group_from(gkey, es_groups, i + 1, best_es_group, best_similarity)

\* lines 426-433: the ES file chosen for vo_file among candidates (None: no file)
RECURSIVE best_es_file_from(_, _, _, _, _)
best_es_file_from(vo_f, candidates, i, best_es_file, best_file_similarity) ==
  IF i > Len(candidates) THEN best_es_file
  ELSE LET similarity == get_file_similarity(vo_f, candidates[i])
       IN IF RatioGreater(similarity, best_file_similarity) /\ RatioAbove(similarity, 5)
          THEN best_es_file_from(vo_f, candidates, i + 1, candidates[i], similarity)
          ELSE best_es_file_from(vo_f, candidates, i + 1, best_es_file, best_file_similarity)

\* lines 425-440: the loop over the VO files of one group; the state carried through
\* the loop is [es_groups, matched]
RECURSIVE fuzzy_match_files(_, _, _)
fuzzy_match_files(vo_list, best_es_group, st) ==
  IF vo_list = <<>> THEN st
  ELSE LET vo_f == Head(vo_list)
           candidates == DictGet(st.es_groups, best_es_group)
           best_es_file == best_es_file_from(vo_f, candidates, 1, None, ZeroRatio)
       IN IF Truthy(best_es_file)
          THEN fuzzy_match_files(Tail(vo_list), best_es_group,
                 [es_groups |-> DictPut(st.es_groups, best_es_group,
                                        ListRemove(candidates, best_es_file)),
                  matched |-> DictPut(st.matched, splitext(basename(vo_f))[1],
                                      [vo |-> vo_f, es |-> best_es_file])])
          ELSE fuzzy_match_files(Tail(vo_list), best_es_group, st)

\* lines 412-440: the loop over the VO groups from position i on
RECURSIVE fuzzy_match_groups(_, _, _)
fuzzy_match_groups(vo_groups, i, st) ==
  IF i > Len(vo_groups) THEN st
  ELSE LET best_es_group == best_es_group_from(vo_groups[i].key, st.es_groups, 1, None, ZeroRatio)
       IN IF Truthy(best_es_group)
          THEN fuzzy_match_groups(vo_groups, i + 1,
                                  fuzzy_match_files(vo_groups[i].val, best_es_group, st))
          ELSE fuzzy_match_groups(vo_groups, i + 1, st)

\* lines 383-440: matched_files after the fuzzy phase
fuzzy_phase(rem_vo, rem_es, matched) ==
  fuzzy_match_groups(group_files(rem_vo, <<>>), 1,
                     [es_groups |-> group_files(rem_es, <<>>), matched |-> matched]).matched

(***************************************************************************)
(* The discovery loop of search_for_vo_and_es_files (processor.py 311-347) *)
(***************************************************************************)
\* lines 314-347 for one walked file: the list it is appended to ("skip": none)
discovered_role(series, season, full_path) ==
  LET root == dirname(full_path)
      file == basename(full_path)
  IN IF ~is_video_file(file) THEN "skip"
     ELSE IF ~passes_filters(series, season, root, file) THEN "skip"
     ELSE file_role(root, file)

\* lines 344-347 with `if is_es` in place of `elif is_es`: a file with markers of both
\* languages is appended to both lists
discovered_files_both_lists(series, season, dk, role) ==
  {f \in dk : \/ discovered_role(series, season, f) = role
              \/ /\ role = "es" /\ discovered_role(series, season, f) = "vo"
                 /\ matches_es_patterns(basename(f))}

\* the files of dk that the loop appends to vo_files (role "vo") or es_files (role "es")
discovered_files(series, season, dk, role) ==
  {f \in dk : discovered_role(series, season, f) = role}

(***************************************************************************)
(* search_for_vo_and_es_files of the command-line version                  *)
(* (tv_movie_processor.py 132-227)                                         *)
(***************************************************************************)
\* line 151: the pattern 'ESPA..OL' as the file spells it, an A with a tilde and a left
\* quotation mark ("lq") in the place of the N with a tilde; lower-cased
s_espa_ol == <<"e","s","p","a","a~","lq","o","l">>

\* line 188: any(re.search(pattern, file, re.IGNORECASE) for pattern in es_patterns)
legacy_matches_es_patterns(file) ==
  LET lf == lower(file)
  IN \/ Contains(lf, s_dot_es_dot) \/ Contains(lf, s_dot_esp_dot)
     \/ Contains(lf, s_dot_spanish_dot) \/ Contains(lf, s_espa_ol) \/ Contains(lf, s_esp)

\* line 156: S0*{season}|Season\s*{season} matches s at position i
LegacySeasonPatternAt(season, s, ls, i) ==
  LET n == str(season)
  IN \/ /\ StartsAt(ls, i, <<"s">>)
        /\ \E z \in 0..Len(s) :
             /\ \A k \in 1..z : StartsAt(s, i + k, <<"0">>)
             /\ StartsAt(s, i + 1 + z, n)
     \/ /\ StartsAt(ls, i, s_season)
        /\ StartsAt(s, SpaceRunEnd(s, i + 6) + 1, n)

\* S(\d+)E(\d+) matches s at position i (re.IGNORECASE)
EpisodeTokenAt(s, i) ==
  LET d1 == DigitRunEnd(s, i + 1)
  IN /\ i <= Len(s) /\ lower_ch(s[i]) = "s"
     /\ d1 >= i + 1
     /\ d1 + 1 <= Len(s) /\ lower_ch(s[d1 + 1]) = "e"
     /\ DigitRunEnd(s, d1 + 2) >= d1 + 2

\* lines 195-220: the key of a file, from the first S<n>E<n> token of its name or else
\* from the name without its extension
legacy_key(file) ==
  IF \E i \in 1..Len(file) : EpisodeTokenAt(file, i)
  THEN LET i  == CHOOSE i \in 1..Len(file) :
                   EpisodeTokenAt(file, i) /\ \A k \in 1..(i - 1) : ~EpisodeTokenAt(file, k)
           d1 == DigitRunEnd(file, i + 1)
           d2 == DigitRunEnd(file, d1 + 2)
       IN <<"S">> \o Format02d(int(SubSeq(file, i + 1, d1)))
          \o <<"E">> \o Format02d(int(SubSeq(file, d1 + 2, d2)))
  ELSE splitext(file)[1]

\* lines 173-220 for one walked file: the side it fills ("skip": none) and its key
legacy_file_entry(series, season, full_path) ==
  LET file == basename(full_path)
      is_vo == matches_vo_patterns(file)
      is_es == legacy_matches_es_patterns(file)
      kept == /\ is_video_file(file)
              /\ series = None \/ series_pattern_search(series, file)
              /\ season = NoNum \/
                   \E i \in 1..Len(file) : LegacySeasonPatternAt(season, file, lower(file), i)
  IN [path |-> full_path,
      side |-> IF ~kept THEN "skip" ELSE IF is_vo \/ ~is_es THEN "vo" ELSE "es",
      key  |-> legacy_key(file)]

\* lines 170-220: matched_files after the loop over the walked files; entries holds the
\* legacy_file_entry of every walked file
RECURSIVE legacy_collect(_, _, _)
legacy_collect(walked, entries, acc) ==
  IF walked = <<>> THEN acc
  ELSE LET e == CHOOSE e \in entries : e.path = Head(walked)
           old == IF DictHas(acc, e.key) THEN DictGet(acc, e.key) ELSE [vo |-> None, es |-> None]
       IN legacy_collect(Tail(walked), entries,
            IF e.side = "skip" THEN acc
            ELSE DictPut(acc, e.key, [old EXCEPT ![e.side] = e.path]))

\* lines 222-227: only the entries with both a VO and an ES file are returned
complete_matches(matched) ==
  SelectSeq(matched, LAMBDA e : Truthy(e.val.vo) /\ Truthy(e.val.es))

\* the value returned for the files walked, in the order walked
legacy_search(series, season, walked) ==
  complete_matches(
    legacy_collect(walked, {legacy_file_entry(series, season, f) : f \in Range(walked)}, <<>>))

(***************************************************************************)
(* The finite universe the inputs are drawn from                           *)
(***************************************************************************)
w_Show == <<"S","h","o","w">>
w_show == <<"s","h","o","w">>
w_The == <<"T","h","e">>
w_Movie == <<"M","o","v","i","e">>
w_2020 == <<"2","0","2","0">>
w_S01E02 == <<"S","0","1","E","0","2">>
w_s01e02 == <<"s","0","1","e","0","2">>
w_S01E03 == <<"S","0","1","E","0","3">>
w_S01E04 == <<"S","0","1","E","0","4">>
w_S00E05 == <<"S","0","0","E","0","5">>
w_S12E103 == <<"S","1","2","E","1","0","3">>
w_1x02 == <<"1","x","0","2">>
w_1x04 == <<"1","x","0","4">>
w_12x103 == <<"1","2","x","1","0","3">>
w_720p == <<"7","2","0","p">>
w_X == <<"X">>
w_mkv == <<"m","k","v">>
w_avi == <<"a","v","i">>
w_srt == <<"s","r","t">>

\* '.'.join(parts)
RECURSIVE DotJoin(_)
DotJoin(parts) ==
  IF parts = <<>> THEN <<>>
  ELSE IF Len(parts) = 1 THEN parts[1]
  ELSE parts[1] \o <<".">> \o DotJoin(Tail(parts))

\* directories: the media root /m, its subdirectory /m/es, and /mx outside the root
d_root == <<"/">>
d_m == MediaRoot
d_m_es == <<"/","m","/","e","s">>
d_mx == <<"/","m","x">>
d_m_out == <<"/","m","/","o","u","t">>

\* /m/Show.S01E02.en.mkv, /m/Show.S01E02.eng.mkv: two VO files of one episode
F_vo_en == join(d_m, DotJoin(<<w_Show, w_S01E02, s_en, w_mkv>>))
F_vo_eng == join(d_m, DotJoin(<<w_Show, w_S01E02, s_eng, w_mkv>>))
\* /m/Show.S01E02.es.mkv: the ES file of that episode
F_es_es == join(d_m, DotJoin(<<w_Show, w_S01E02, s_es, w_mkv>>))
\* /m/Show.S01E04.en.mkv, /m/es/Show.1x04.es.mkv: VO and ES file of another episode
F_vo_e04 == join(d_m, DotJoin(<<w_Show, w_S01E04, s_en, w_mkv>>))
F_es_1x04 == join(d_m_es, DotJoin(<<w_Show, w_1x04, s_es, w_mkv>>))
\* /m/S01E02.mkv, /m/es/S01E03.es.mkv: episode tokens without a series name
F_bare_vo == join(d_m, DotJoin(<<w_S01E02, w_mkv>>))
F_bare_es == join(d_m_es, DotJoin(<<w_S01E03, s_es, w_mkv>>))
\* /m/Movie.2020.mkv, /m/Movie.2020.vo.avi, /m/es/Movie.2020.es.mkv: a movie
F_movie == join(d_m, DotJoin(<<w_Movie, w_2020, w_mkv>>))
F_movie_avi == join(d_m, DotJoin(<<w_Movie, w_2020, s_vo, w_avi>>))
F_movie_es == join(d_m_es, DotJoin(<<w_Movie, w_2020, s_es, w_mkv>>))

\* the files a searched tree may hold
FileUniverse ==
  {F_vo_en, F_vo_eng, F_es_es, F_vo_e04, F_es_1x04, F_bare_vo, F_bare_es,
   F_movie, F_movie_avi, F_movie_es}

\* the directories of the searched tree
SearchDirs == {d_root, d_m, d_m_es, d_mx}

\* the arguments of a search: --paths, --series and --season (None, NoNum: not given)
SearchArgChoices ==
  { [search_paths |-> <<>>, series |-> None, season |-> NoNum],
    [search_paths |-> <<d_mx>>, series |-> None, season |-> NoNum],
    [search_paths |-> <<d_m>>, series |-> None, season |-> NoNum],
    [search_paths |-> <<d_m, d_m_es>>, series |-> None, season |-> NoNum],
    [search_paths |-> <<d_m>>, series |-> w_show, season |-> NoNum],
    [search_paths |-> <<d_m>>, series |-> None, season |-> 1] }

(***************************************************************************)
(* os.walk: top-down, the files of a directory and its subdirectories in   *)
(* the arbitrary order of the directory listing                            *)
(***************************************************************************)
RECURSIVE WalkOrders(_, _, _)
RECURSIVE SubWalks(_, _, _)
WalkOrders(top, dk, ds) ==
  IF top \notin ds THEN { <<>> }
  ELSE LET here == {f \in dk : dirname(f) = top}
           subs == {d \in ds : d # top /\ dirname(d) = top}
       IN {p \o q : p \in Perms(here), q \in SubWalks(subs, dk, ds)}

SubWalks(subs, dk, ds) ==
  IF subs = {} THEN { <<>> }
  ELSE UNION {{a \o b : a \in WalkOrders(d, dk, ds), b \in SubWalks(subs \ {d}, dk, ds)} : d \in subs}

\* lines 312-313: the roots are walked in the order given
RECURSIVE AllWalks(_, _, _)
AllWalks(paths, dk, ds) ==
  IF paths = <<>> THEN { <<>> }
  ELSE {a \o b : a \in WalkOrders(Head(paths), dk, ds), b \in AllWalks(Tail(paths), dk, ds)}

(***************************************************************************)
(* State                                                                   *)
(***************************************************************************)
VARIABLES
  disk,            \* the regular files that exist
  zero_size,       \* those of them whose size is 0
  dirs,            \* the directories that exist
  series,          \* search_for_vo_and_es_files: argument series
  season,          \* argument season
  search_paths,    \* argument search_paths
  s_pc,            \* position in search_for_vo_and_es_files
  vo_files,        \* local vo_files
  es_files,        \* local es_files
  matched_files,   \* local matched_files, the value returned
  remaining_vo,    \* local remaining_vo
  remaining_es,    \* local remaining_es
  second_run,      \* the search is being run a second time
  first_result,    \* the mapping the previous run returned
  mode,            \* main: args.mode
  files,           \* main: args.files still to be handled
  vo_file,         \* process_file_pair: argument vo_file
  es_file,         \* argument es_file of process_file_pair and of validate_and_cleanup
  destination_path,\* argument destination_path
  p_pc,            \* position in process_file_pair and the functions it calls
  vo_mkv,          \* process_file_pair: local vo_mkv
  t_vo_mkv,        \* transfer_audio_track: local vo_mkv
  es_mkv,          \* transfer_audio_track: local es_mkv
  output_file,     \* local output_file, argument output_file of validate_and_cleanup
  v_vo_file,       \* validate_and_cleanup: argument vo_file
  audio_streams,   \* validate_and_cleanup: local audio_streams
  success,         \* the value validate_and_cleanup and process_file_pair return
  calls,           \* the external calls of the call in progress, in order
  vo_name,         \* output naming: the VO file name the rule is applied to
  prev_name,       \* the name the rule was applied to before
  renames,         \* number of applications of the rule
  e_file,          \* extract_episode_info: argument filename
  e_season,        \* the season number of the token written into e_file
  e_episode,       \* the episode number of the token written into e_file
  e_info,          \* the value extract_episode_info returned
  e_pc,            \* position of the extraction
  jobs,            \* the job registry: job id -> the job's record
  worker,          \* job id -> the position of the job's background worker
  seen,            \* what the last status query returned
  clock,           \* the timestamp tick job ids are derived from
  submits          \* submit call -> the position of the call

search_vars ==
  <<series, season, search_paths, s_pc, vo_files, es_files, matched_files,
    remaining_vo, remaining_es, second_run, first_result>>

fs_vars == <<disk, zero_size, dirs>>

pipe_vars ==
  <<mode, files, vo_file, es_file, destination_path, p_pc, vo_mkv, t_vo_mkv, es_mkv,
    output_file, v_vo_file, audio_streams, success, calls>>

naming_vars == <<vo_name, prev_name, renames>>

episode_vars == <<e_file, e_season, e_episode, e_info, e_pc>>

job_vars == <<jobs, worker, seen, clock, submits>>

vars == <<fs_vars, search_vars, pipe_vars, naming_vars, episode_vars, job_vars>>

\* no search is running
SearchUnused ==
  /\ series = None /\ season = NoNum /\ search_paths = <<>> /\ s_pc = "idle"
  /\ vo_files = <<>> /\ es_files = <<>> /\ matched_files = <<>>
  /\ remaining_vo = <<>> /\ remaining_es = <<>>
  /\ second_run = FALSE /\ first_result = <<>>

\* no pair is being processed
PipeUnused ==
  /\ mode = "search" /\ files = <<>> /\ vo_file = None /\ es_file = None
  /\ destination_path = None /\ p_pc = "idle" /\ vo_mkv = None /\ t_vo_mkv = None
  /\ es_mkv = None /\ output_file = None /\ v_vo_file = None /\ audio_streams = NoNum
  /\ success = FALSE /\ calls = <<>>

\* the output-naming rule is not being exercised
NamingUnused == vo_name = None /\ prev_name = None /\ renames = 0

\* no extraction is running
EpisodeUnused ==
  /\ e_file = None /\ e_season = NoNum /\ e_episode = NoNum /\ e_info = NoInfo /\ e_pc = "idle"

\* the ids a job can be registered under
JobIds == {"job_1", "job_2"}

\* the float a progress column defaults to: 0, as the fraction num / den
ZeroProgress == [num |-> 0, den |-> 1]

\* a registry slot no job was registered under
NoJob ==
  [status |-> "absent", file_count |-> 0, processed_count |-> 0, progress_percent |-> ZeroProgress,
   results |-> <<>>, error |-> None]

\* no worker was started for the job
NoWorker == [pc |-> "none", pairs |-> <<>>, idx |-> 1, outcome |-> "none"]

\* no status query was answered
NoSnapshot == [job_id |-> "none", status |-> "absent"]

\* the submit calls that can run at the same time
Submitters == {"request_1", "request_2"}

\* a submit call that was not made
NoSubmit == [pc |-> "idle", job_id |-> "none", pairs |-> <<>>]

\* no batch was submitted
JobUnused ==
  /\ jobs = [j \in JobIds |-> NoJob]
  /\ worker = [j \in JobIds |-> NoWorker]
  /\ seen = NoSnapshot
  /\ clock = 1
  /\ submits = [s \in Submitters |-> NoSubmit]

(***************************************************************************)
(* search_for_vo_and_es_files (processor.py 258-444)                       *)
(***************************************************************************)
\* lines 277-283
valid_search_paths == SelectSeq(search_paths, is_path_allowed)

SearchIdle ==
  /\ vo_files = <<>> /\ es_files = <<>> /\ matched_files = <<>>
  /\ remaining_vo = <<>> /\ remaining_es = <<>>

Init_Search ==
  /\ disk \in {d \in SUBSET FileUniverse : Cardinality(d) <= MaxFiles}
  /\ zero_size = {}
  /\ dirs = SearchDirs
  /\ \E a \in SearchArgChoices :
       search_paths = a.search_paths /\ series = a.series /\ season = a.season
  /\ s_pc = "start"
  /\ SearchIdle
  /\ second_run = FALSE
  /\ first_result = <<>>
  /\ PipeUnused /\ NamingUnused /\ EpisodeUnused /\ JobUnused

\* lines 270-287: no search path, or none inside the media root: return {}
SNoValidPaths ==
  /\ s_pc = "start"
  /\ valid_search_paths = <<>>
  /\ s_pc' = "returned"
  /\ matched_files' = <<>>
  /\ UNCHANGED <<pipe_vars, naming_vars, episode_vars, job_vars, fs_vars, series, season, search_paths, vo_files, es_files,
                 remaining_vo, remaining_es, second_run, first_result>>

\* lines 289-349: walk the valid roots and classify the files
SWalk ==
  /\ s_pc = "start"
  /\ valid_search_paths # <<>>
  /\ \E vo_set \in {discovered_files(series, season, disk, "vo")},
        es_set \in {discovered_files(series, season, disk, "es")} :
       \E walked \in AllWalks(valid_search_paths, disk, dirs) :
         /\ vo_files' = SelectSeq(walked, LAMBDA f : f \in vo_set)
         /\ es_files' = SelectSeq(walked, LAMBDA f : f \in es_set)
  /\ s_pc' = "walked"
  /\ UNCHANGED <<pipe_vars, naming_vars, episode_vars, job_vars, fs_vars, series, season, search_paths, matched_files,
                 remaining_vo, remaining_es, second_run, first_result>>

\* lines 351-381: the exact phase
SExact ==
  /\ s_pc = "walked"
  /\ \E exact \in {exact_matches(episode_index(vo_files, <<>>), episode_index(es_files, <<>>))} :
       /\ matched_files' = exact
       /\ remaining_vo' = remaining_files(vo_files, exact, "vo")
       /\ remaining_es' = remaining_files(es_files, exact, "es")
  /\ s_pc' = "exact"
  /\ UNCHANGED <<pipe_vars, naming_vars, episode_vars, job_vars, fs_vars, series, season, search_paths, vo_files, es_files, second_run, first_result>>

\* lines 383-444: the fuzzy phase and the return; the other locals end with the call
SFuzzy ==
  /\ s_pc = "exact"
  /\ matched_files' = fuzzy_phase(remaining_vo, remaining_es, matched_files)
  /\ s_pc' = "returned"
  /\ vo_files' = <<>> /\ es_files' = <<>>
  /\ remaining_vo' = <<>> /\ remaining_es' = <<>>
  /\ UNCHANGED <<pipe_vars, naming_vars, episode_vars, job_vars, fs_vars, series, season, search_paths, second_run, first_result>>

\* the search is called again with the same arguments on the unchanged tree
SRerun ==
  /\ s_pc = "returned"
  /\ ~second_run
  /\ first_result' = matched_files
  /\ second_run' = TRUE
  /\ s_pc' = "start"
  /\ matched_files' = <<>>
  /\ UNCHANGED <<pipe_vars, naming_vars, episode_vars, job_vars, fs_vars, series, season, search_paths, vo_files, es_files,
                 remaining_vo, remaining_es>>

\* tv_movie_processor.py 132-227: the search of the command-line version, which walks
\* every search path given
SLegacy ==
  /\ s_pc = "start"
  /\ ~second_run
  /\ IF search_paths = <<>>
     THEN matched_files' = <<>>
     ELSE \E entries \in {{legacy_file_entry(series, season, f) : f \in disk}} :
            \E walked \in AllWalks(search_paths, disk, dirs) :
              matched_files' = complete_matches(legacy_collect(walked, entries, <<>>))
  /\ s_pc' = "legacy_returned"
  /\ UNCHANGED <<pipe_vars, naming_vars, episode_vars, job_vars, fs_vars, series, season, search_paths,
                 vo_files, es_files, remaining_vo, remaining_es, second_run, first_result>>

Next_Search == SNoValidPaths \/ SWalk \/ SExact \/ SFuzzy \/ SRerun \/ SLegacy

SpecSearch == Init_Search /\ [][Next_Search]_vars

(***************************************************************************)
(* Properties of search_for_vo_and_es_files                                *)
(***************************************************************************)
\* the files the walk of the valid roots reaches and appends to the list of the role
found_files(role) ==
  {f \in discovered_files(series, season, disk, role) :
     \E i \in 1..Len(valid_search_paths) : startswith(f, valid_search_paths[i] \o <<"/">>)}

\* the episode keys extract_episode_info gives the files of a set
keys_of(file_set) ==
  {EpisodeKey(extract_episode_info(f)) : f \in {g \in file_set : extract_episode_info(g).found}}

\* a file carries the key k
carries_key(f, k) == extract_episode_info(f).found /\ EpisodeKey(extract_episode_info(f)) = k

\* C4: every value of the mapping, after the exact phase and after the fuzzy phase,
\* has a non-empty 'vo' path and a non-empty 'es' path
C4_NoMissingSide ==
  \A i \in 1..Len(matched_files) :
    Truthy(matched_files[i].val.vo) /\ Truthy(matched_files[i].val.es)

\* a search returned pairs although a VO file it found has no ES partner
C4_Witness ==
  /\ s_pc = "returned"
  /\ matched_files # <<>>
  /\ \E f \in found_files("vo") : \A i \in 1..Len(matched_files) : matched_files[i].val.vo # f

\* C5: no ES path is the 'es' side of two different pairs of the returned mapping
C5_EsNeverReused ==
  s_pc = "returned" =>
    \A i, j \in 1..Len(matched_files) :
      i # j => matched_files[i].val.es # matched_files[j].val.es

\* every file the search finds carries an exact episode key
all_found_carry_keys ==
  \A f \in found_files("vo") \cup found_files("es") : extract_episode_info(f).found

\* every key found is carried by exactly one VO file and exactly one ES file
keys_paired_one_to_one ==
  \A k \in keys_of(found_files("vo")) \cup keys_of(found_files("es")) :
    /\ Cardinality({f \in found_files("vo") : carries_key(f, k)}) = 1
    /\ Cardinality({f \in found_files("es") : carries_key(f, k)}) = 1

\* C6 as stated: when the files found carry exact episode keys, the second run returns
\* the mapping of the first run, whatever the order of discovery
C6_Idempotent ==
  (s_pc = "returned" /\ second_run /\ all_found_carry_keys) =>
    Range(matched_files) = Range(first_result)

\* C6 amended: the second run returns the mapping of the first when, besides, every key
\* found is carried by exactly one VO file and exactly one ES file
C6_IdempotentUniqueKeys ==
  (s_pc = "returned" /\ second_run /\ all_found_carry_keys /\ keys_paired_one_to_one) =>
    Range(matched_files) = Range(first_result)

\* two runs over two episodes, one VO and one ES file each, that built the mapping in a
\* different order
C6_Witness ==
  /\ s_pc = "returned" /\ second_run
  /\ all_found_carry_keys /\ keys_paired_one_to_one
  /\ Len(matched_files) = 2
  /\ matched_files # first_result

\* C10: every key found on a VO file and on an ES file has an entry whose two files carry
\* the key, no paired path is left to the fuzzy phase, and Show.S01E02.en.mkv with
\* Show.S01E02.es.mkv alone gives the one pair S01E02
C10_ExactPairsKept ==
  /\ s_pc = "returned" =>
       \A k \in keys_of(found_files("vo")) \cap keys_of(found_files("es")) :
         /\ DictHas(matched_files, k)
         /\ carries_key(DictGet(matched_files, k).vo, k)
         /\ carries_key(DictGet(matched_files, k).es, k)
  /\ s_pc = "exact" =>
       \A i \in 1..Len(matched_files) :
         /\ matched_files[i].val.vo \notin Range(remaining_vo)
         /\ matched_files[i].val.es \notin Range(remaining_es)
  /\ (s_pc = "returned" /\ found_files("vo") = {F_vo_en} /\ found_files("es") = {F_es_es}) =>
       matched_files = << [key |-> w_S01E02, val |-> [vo |-> F_vo_en, es |-> F_es_es]] >>

(***************************************************************************)
(* The external tools and the file system                                  *)
(***************************************************************************)
\* os.makedirs(path, exist_ok=True): the directories that exist afterwards
RECURSIVE makedirs(_, _)
makedirs(path, ds) ==
  IF path \in ds \/ path = <<>> \/ dirname(path) = path THEN ds
  ELSE makedirs(dirname(path), ds) \cup {path}

\* subprocess.run(['ffmpeg', '-i', inputs ..., '-c', 'copy', output_path], check=True):
\* the outcomes [exit, disk, zero_size].  The tool exits with success or with an error
\* (CalledProcessError) and leaves output_path untouched, empty or with data; it writes
\* nothing when the directory of output_path is missing or output_path is an input
ffmpeg_run(inputs, output_path, dk, zs, ds) ==
  IF dirname(output_path) \notin ds \/ output_path \in inputs
  THEN {[exit |-> "error", disk |-> dk, zero_size |-> zs]}
  ELSE {[exit |-> e, disk |-> dk, zero_size |-> zs] : e \in {"ok", "error"}}
       \cup {[exit |-> e, disk |-> dk \cup {output_path}, zero_size |-> zs \cup {output_path}] :
               e \in {"ok", "error"}}
       \cup {[exit |-> e, disk |-> dk \cup {output_path}, zero_size |-> zs \ {output_path}] :
               e \in {"ok", "error"}}

\* subprocess.run(['ffprobe', ..., output_file], check=True): an error (CalledProcessError)
\* or the number of lines 'audio' of the output
ffprobe_run ==
  {[exit |-> "error", audio |-> NoNum]} \cup {[exit |-> "ok", audio |-> n] : n \in 0..MaxAudio}

\* one logged external call: the tool, the file it writes, probes or removes, how it
\* ended, the audio streams it reported and whether the file has data afterwards
Call(tool, path, exit, audio, written) ==
  [tool |-> tool, path |-> path, exit |-> exit, audio |-> audio, written |-> written]

(***************************************************************************)
(* ensure_mkv_format (processor.py 446-488): the outcomes [ret, disk,      *)
(* zero_size, calls] of a call                                             *)
(***************************************************************************)
\* lines 480 and 554: the tool's output exists and has a non-zero size
output_written(path, dk, zs) == path \in dk /\ path \notin zs

ensure_mkv_format(file_path, dk, zs, ds) ==
  IF file_path \notin dk
  THEN {[ret |-> None, disk |-> dk, zero_size |-> zs, calls |-> <<>>]}
  ELSE IF endswith(lower(file_path), s_dot_mkv)
  THEN {[ret |-> file_path, disk |-> dk, zero_size |-> zs, calls |-> <<>>]}
  ELSE LET output_path == splitext(file_path)[1] \o s_dot_mkv
       IN {[ret |-> IF r.exit = "ok" /\ output_written(output_path, r.disk, r.zero_size)
                    THEN output_path ELSE None,
            disk |-> r.disk, zero_size |-> r.zero_size,
            calls |-> <<Call("ffmpeg -c copy", output_path, r.exit, NoNum,
                             output_written(output_path, r.disk, r.zero_size))>>] :
             r \in ffmpeg_run({file_path}, output_path, dk, zs, ds)}

\* line 588: the validation passes when the output has at least two audio streams
enough_audio_streams_one(n) == n >= 1

enough_audio_streams(n) == ~(n < 2)

\* lines 551-559 without the test of the output file: a tool that exits without an
\* error is taken to have merged
merge_succeeded_unverified(exit, path, dk, zs) == exit = "ok"

\* lines 551-559: transfer_audio_track returns output_file
merge_succeeded(exit, path, dk, zs) == exit = "ok" /\ output_written(path, dk, zs)

(***************************************************************************)
(* process_file_pair (processor.py 609-635) with transfer_audio_track      *)
(* (490-562) and validate_and_cleanup (564-607); mode 'cleanup' of main    *)
(* (708-712) calls validate_and_cleanup directly, and mode "validate" is a *)
(* call of validate_and_cleanup with the three arguments given             *)
(***************************************************************************)
s_dot_es_original == <<".","e","s",".","o","r","i","g","i","n","a","l">>

\* /m/es/Movie.2020.es.avi: an ES file that is not MKV
F_es_avi == join(d_m_es, DotJoin(<<w_Movie, w_2020, s_es, w_avi>>))
\* /m/Show.S01E02.en.es.mkv: a merged file
F_merged == join(d_m, DotJoin(<<w_Show, w_S01E02, s_en, s_es, w_mkv>>))

\* /mx/Movie.2020.vo.avi: a VO file outside the media root
F_outside_avi == join(d_mx, DotJoin(<<w_Movie, w_2020, s_vo, w_avi>>))

PipeVoChoices == {F_vo_en, F_movie, F_movie_avi, F_outside_avi}
PipeEsChoices == {F_es_es, F_movie_es, F_es_avi}
DestinationChoices == {None, d_m_es, d_m_out}
CleanupArgChoices == {<<F_merged>>, <<F_movie, F_merged>>}
CleanupUniverse == {F_merged, F_merged \o s_dot_es_original, F_movie}
\* the arguments of a direct call validate_and_cleanup(output_file, es_file, vo_file)
ValidateVoChoices == {None, F_vo_en, F_merged}
ValidateEsChoices == {F_es_es, F_merged}
ValidateUniverse == {F_merged, F_es_es, F_vo_en, F_movie}

Init_Pipe ==
  /\ SearchUnused /\ NamingUnused /\ EpisodeUnused /\ JobUnused
  /\ dirs = {d_root, d_m, d_m_es, d_mx}
  /\ zero_size = {}
  /\ \/ /\ mode = "merge" /\ files = <<>>
        /\ vo_file \in PipeVoChoices
        /\ es_file \in PipeEsChoices
        /\ destination_path \in DestinationChoices
        /\ disk \in SUBSET {vo_file, es_file}
        /\ p_pc = "start" /\ output_file = None /\ v_vo_file = None
     \/ /\ mode = "cleanup" /\ files \in CleanupArgChoices
        /\ vo_file = None /\ es_file = None /\ destination_path = None
        /\ disk \in SUBSET CleanupUniverse
        /\ p_pc = "start" /\ output_file = None /\ v_vo_file = None
     \/ /\ mode = "validate" /\ files = <<>>
        /\ vo_file = None /\ destination_path = None
        /\ output_file = F_merged /\ es_file \in ValidateEsChoices
        /\ v_vo_file \in ValidateVoChoices
        /\ disk \in SUBSET ValidateUniverse
        /\ p_pc = "merged"
  /\ vo_mkv = None /\ t_vo_mkv = None /\ es_mkv = None
  /\ audio_streams = NoNum /\ success = FALSE /\ calls = <<>>

\* lines 626 and 631: process_file_pair returns (False, None)
FailPair == p_pc' = "done" /\ success' = FALSE /\ output_file' = None

\* lines 623-626: vo_mkv = ensure_mkv_format(vo_file)
PNormalize ==
  /\ p_pc = "start" /\ mode = "merge"
  /\ \E o \in ensure_mkv_format(vo_file, disk, zero_size, dirs) :
       /\ disk' = o.disk /\ zero_size' = o.zero_size
       /\ calls' = calls \o o.calls
       /\ vo_mkv' = o.ret
       /\ IF Truthy(o.ret)
          THEN p_pc' = "normalized" /\ UNCHANGED <<success, output_file>>
          ELSE FailPair
  /\ UNCHANGED <<dirs, mode, files, vo_file, es_file, destination_path, t_vo_mkv, es_mkv,
                 v_vo_file, audio_streams, search_vars, naming_vars, episode_vars, job_vars>>

\* line 510 with only the VO file tested
both_normalized_vo_only(vo, es) == Truthy(vo)

\* line 510: `not vo_mkv or not es_mkv` ends transfer_audio_track
both_normalized(vo, es) == Truthy(vo) /\ Truthy(es)

\* lines 502-512: transfer_audio_track(vo_mkv, es_file, destination_path) checks its
\* inputs and ensures both are MKV
PTransferInputs ==
  /\ p_pc = "normalized"
  /\ IF vo_mkv \notin disk \/ es_file \notin disk
     THEN FailPair /\ UNCHANGED <<disk, zero_size, calls, t_vo_mkv, es_mkv>>
     ELSE \E o1 \in ensure_mkv_format(vo_mkv, disk, zero_size, dirs) :
            \E o2 \in ensure_mkv_format(es_file, o1.disk, o1.zero_size, dirs) :
              /\ disk' = o2.disk /\ zero_size' = o2.zero_size
              /\ calls' = calls \o o1.calls \o o2.calls
              /\ t_vo_mkv' = o1.ret /\ es_mkv' = o2.ret
              /\ IF both_normalized(o1.ret, o2.ret)
                 THEN p_pc' = "inputs" /\ UNCHANGED <<success, output_file>>
                 ELSE FailPair
  /\ UNCHANGED <<dirs, mode, files, vo_file, es_file, destination_path, vo_mkv,
                 v_vo_file, audio_streams, search_vars, naming_vars, episode_vars, job_vars>>

\* lines 514-562 and 629-634: the output path, the merge, and the argument vo_file of
\* the call of validate_and_cleanup
PMerge ==
  /\ p_pc = "inputs"
  /\ \E ds1 \in {IF Truthy(destination_path) THEN makedirs(dirname(destination_path), dirs)
                                            ELSE dirs},
        out \in {output_file_name(t_vo_mkv, destination_path)} :
       \E r \in ffmpeg_run({t_vo_mkv, es_mkv}, out, disk, zero_size, ds1) :
         /\ dirs' = ds1 /\ disk' = r.disk /\ zero_size' = r.zero_size
         /\ calls' = Append(calls, Call("ffmpeg -map", out, r.exit, NoNum,
                                        output_written(out, r.disk, r.zero_size)))
         /\ IF merge_succeeded(r.exit, out, r.disk, r.zero_size)
            THEN /\ output_file' = out
                 /\ v_vo_file' = IF vo_file # vo_mkv THEN vo_file ELSE None
                 /\ p_pc' = "merged"
                 /\ UNCHANGED success
            ELSE FailPair /\ UNCHANGED v_vo_file
  /\ UNCHANGED <<mode, files, vo_file, es_file, destination_path, vo_mkv, t_vo_mkv, es_mkv,
                 audio_streams, search_vars, naming_vars, episode_vars, job_vars>>

\* main, lines 708-711: validate_and_cleanup(file, file + ".es.original") for the next
\* of args.files
PCleanupStart ==
  /\ mode = "cleanup" /\ p_pc \in {"start", "done"} /\ files # <<>>
  /\ output_file' = Head(files)
  /\ es_file' = Head(files) \o s_dot_es_original
  /\ v_vo_file' = None
  /\ files' = Tail(files)
  /\ calls' = <<>>
  /\ audio_streams' = NoNum
  /\ p_pc' = "merged"
  /\ UNCHANGED <<fs_vars, mode, vo_file, destination_path, vo_mkv, t_vo_mkv, es_mkv, success,
                 search_vars, naming_vars, episode_vars, job_vars>>

\* lines 576-592: the output must exist and the probe must report two audio streams
PProbe ==
  /\ p_pc = "merged"
  /\ IF output_file \notin disk
     THEN p_pc' = "done" /\ success' = FALSE /\ UNCHANGED <<calls, audio_streams>>
     ELSE \E r \in ffprobe_run :
            /\ calls' = Append(calls, Call("ffprobe", output_file, r.exit, r.audio, FALSE))
            /\ IF r.exit = "error"
               THEN p_pc' = "done" /\ success' = FALSE /\ UNCHANGED audio_streams
               ELSE /\ audio_streams' = r.audio
                    /\ IF enough_audio_streams(r.audio)
                       THEN p_pc' = "probed" /\ UNCHANGED success
                       ELSE p_pc' = "done" /\ success' = FALSE
  /\ UNCHANGED <<fs_vars, mode, files, vo_file, es_file, destination_path, vo_mkv, t_vo_mkv,
                 es_mkv, output_file, v_vo_file, search_vars, naming_vars, episode_vars, job_vars>>

\* os.remove(path) within an action that continues at next_pc: the file is removed, or
\* the call raises OSError, which validate_and_cleanup does not catch
Remove(path, next_pc) ==
  \/ /\ disk' = disk \ {path} /\ zero_size' = zero_size \ {path}
     /\ calls' = Append(calls, Call("os.remove", path, "ok", NoNum, FALSE))
     /\ p_pc' = next_pc
  \/ /\ calls' = Append(calls, Call("os.remove", path, "error", NoNum, FALSE))
     /\ p_pc' = "raised"
     /\ UNCHANGED <<disk, zero_size>>

\* lines 594-597: delete the Spanish dubbed file
PRemoveEs ==
  /\ p_pc = "probed"
  /\ IF es_file \in disk
     THEN Remove(es_file, "es_removed")
     ELSE p_pc' = "es_removed" /\ UNCHANGED <<disk, zero_size, calls>>
  /\ UNCHANGED <<dirs, mode, files, vo_file, es_file, destination_path, vo_mkv, t_vo_mkv,
                 es_mkv, output_file, v_vo_file, audio_streams, success,
                 search_vars, naming_vars, episode_vars, job_vars>>

\* line 600 without the comparison with the output file
vo_file_to_remove_unchecked(vo, out, dk) == Truthy(vo) /\ vo \in dk

\* line 600: vo_file and vo_file != output_file and os.path.exists(vo_file)
vo_file_to_remove(vo, out, dk) == Truthy(vo) /\ vo # out /\ vo \in dk

\* lines 599-604: delete the original VO file when one was passed, and return True
PRemoveVo ==
  /\ p_pc = "es_removed"
  /\ IF vo_file_to_remove(v_vo_file, output_file, disk)
     THEN Remove(v_vo_file, "done")
     ELSE p_pc' = "done" /\ UNCHANGED <<disk, zero_size, calls>>
  /\ success' = (p_pc' = "done")
  /\ UNCHANGED <<dirs, mode, files, vo_file, es_file, destination_path, vo_mkv, t_vo_mkv,
                 es_mkv, output_file, v_vo_file, audio_streams,
                 search_vars, naming_vars, episode_vars, job_vars>>

Next_Pipe ==
  PNormalize \/ PTransferInputs \/ PMerge \/ PCleanupStart \/ PProbe \/ PRemoveEs \/ PRemoveVo

SpecPipe == Init_Pipe /\ [][Next_Pipe]_vars

(***************************************************************************)
(* Properties of process_file_pair and validate_and_cleanup                *)
(***************************************************************************)
\* the call at position i of the log removed a file
is_deletion(i) == calls[i].tool = "os.remove" /\ calls[i].exit = "ok"

\* the call at position i of the log is a probe that reported at least 2 audio streams
is_good_probe(i) == calls[i].tool = "ffprobe" /\ calls[i].exit = "ok" /\ calls[i].audio >= 2

\* the call at position i of the log is a conversion or a merge that failed: the tool
\* ended with an error or left no output with data
is_failed_ffmpeg(i) ==
  /\ calls[i].tool \in {"ffmpeg -c copy", "ffmpeg -map"}
  /\ (calls[i].exit = "error" \/ ~calls[i].written)

\* C1: every deletion comes strictly after a probe that reported at least 2 audio
\* streams, a file leaves the disk only by such a deletion, and when
\* validate_and_cleanup returns failure (output missing, probe error, fewer than 2 audio
\* streams) nothing has been deleted: es_path and vo_path are as they were
C1_NoDeletionOnFailure ==
  /\ [](\A i \in 1..Len(calls) : is_deletion(i) => \E j \in 1..(i - 1) : is_good_probe(j))
  /\ [][disk \ disk' # {} =>
          /\ Len(calls') = Len(calls) + 1
          /\ is_deletion(Len(calls))'
          /\ disk \ disk' = {calls'[Len(calls')].path}
          /\ calls'[Len(calls')].path \in {es_file, v_vo_file}]_vars
  /\ []((p_pc = "done" /\ ~success) => \A i \in 1..Len(calls) : ~is_deletion(i))

\* validate_and_cleanup returned failure on an output with a single audio stream, and
\* the ES file and the VO file are on disk
C1_Witness ==
  /\ p_pc = "done" /\ ~success
  /\ \E i \in 1..Len(calls) :
       calls[i].tool = "ffprobe" /\ calls[i].exit = "ok" /\ calls[i].audio = 1
  /\ es_file \in disk /\ vo_file \in disk

\* C2: the steps run in the order normalize, merge, validate/cleanup and stop at the
\* first failure: a probe is preceded by a merge that succeeded, and once the
\* normalization or the merge has failed there is no probe, no deletion and the result
\* is failure
C2_StopsAtFirstFailure ==
  mode = "merge" =>
    /\ \A i \in 1..Len(calls) :
         calls[i].tool = "ffprobe" =>
           /\ Truthy(vo_mkv)
           /\ \E j \in 1..(i - 1) : calls[j].tool = "ffmpeg -map" /\ ~is_failed_ffmpeg(j)
    /\ \A i \in 1..Len(calls) :
         is_failed_ffmpeg(i) =>
           /\ \A j \in (i + 1)..Len(calls) : calls[j].tool \notin {"ffprobe", "os.remove"}
           /\ p_pc = "done" /\ ~success
    /\ (p_pc # "start" /\ ~Truthy(vo_mkv)) =>
         /\ \A j \in 1..Len(calls) : calls[j].tool \notin {"ffprobe", "os.remove"}
         /\ p_pc = "done" /\ ~success
    /\ (p_pc = "done" /\ ~Truthy(output_file)) =>
         /\ \A j \in 1..Len(calls) : calls[j].tool \notin {"ffprobe", "os.remove"}
         /\ ~success

\* the merge tool ended without an error but left an empty output: the pair failed
\* without a probe
C2_Witness ==
  /\ mode = "merge" /\ p_pc = "done" /\ ~success
  /\ \E i \in 1..Len(calls) :
       calls[i].tool = "ffmpeg -map" /\ calls[i].exit = "ok" /\ ~calls[i].written

\* C3: for a pair of existing .mkv files whose merged output has at least 2 audio
\* streams, process_file_pair reports success and both the VO source and the ES source
\* are gone from disk
C3_BothSourcesDeleted ==
  ( /\ mode = "merge" /\ p_pc = "done"
    /\ endswith(vo_file, s_dot_mkv) /\ endswith(es_file, s_dot_mkv)
    /\ \E i \in 1..Len(calls) : is_good_probe(i) ) =>
      (success /\ vo_file \notin disk /\ es_file \notin disk)

\* the file name the naming rule is meant to give: the dot-delimited language tags of
\* the base name dropped, then .en.es and the extension
RECURSIVE without_tag_segments(_)
without_tag_segments(segments) ==
  IF segments = <<>> THEN <<>>
  ELSE IF lower(Head(segments)) \in Range(LanguageTags)
       THEN without_tag_segments(Tail(segments))
       ELSE <<Head(segments)>> \o without_tag_segments(Tail(segments))

RECURSIVE SplitDots(_)
SplitDots(str_) ==
  IF find(str_, ".") = 0 THEN <<str_>>
  ELSE <<SubSeq(str_, 1, find(str_, ".") - 1)>> \o SplitDots(SubSeq(str_, find(str_, ".") + 1, Len(str_)))

intended_output_name(vo_base) ==
  LET segments == SplitDots(vo_base)
  IN DotJoin(<<Head(segments)>> \o without_tag_segments(Tail(segments)) \o <<s_en, s_es, w_mkv>>)

\* C7: when the VO base name does not contain the combined tag, the merged file is
\* named after it with every single-language tag stripped and .en.es appended before the
\* extension: Show.S01E02.en.mkv gives Show.S01E02.en.es.mkv
C7_OutputNaming ==
  ( /\ mode = "merge" /\ Truthy(output_file)
    /\ ~Contains(lower(splitext(basename(vo_mkv))[1]) \o <<".">>, s_dot_en_es_dot) ) =>
      basename(output_file) = intended_output_name(splitext(basename(vo_mkv))[1])

(***************************************************************************)
(* The output-naming rule of transfer_audio_track applied to its own       *)
(* result: a later run takes the file of an earlier run as its VO file     *)
(***************************************************************************)
w_EN == <<"E","N">>

NamingBases == {<<w_Show, w_S01E02>>, <<w_The, w_Show>>, <<w_Movie, w_2020>>, <<w_X>>}

NamingSuffixes ==
  { <<>>, <<s_en>>, <<s_eng>>, <<s_english>>, <<s_es>>, <<s_esp>>, <<s_spanish>>, <<w_EN>>,
    <<s_en, s_es>>, <<s_es, s_en>>, <<s_en, w_720p>>, <<s_en, s_es, w_720p>> }

Init_Naming ==
  /\ SearchUnused /\ PipeUnused /\ EpisodeUnused /\ JobUnused
  /\ disk = {} /\ zero_size = {} /\ dirs = {d_root, d_m}
  /\ \E b \in NamingBases, t \in NamingSuffixes :
       vo_name = join(d_m, DotJoin(b \o t \o <<w_mkv>>))
  /\ prev_name = None
  /\ renames = 0

\* lines 515-534 with destination_path None, for the file the rule named last
Rename ==
  /\ vo_name # None
  /\ renames < MaxRenames
  /\ prev_name' = vo_name
  /\ vo_name' = output_file_name(vo_name, None)
  /\ renames' = renames + 1
  /\ UNCHANGED <<fs_vars, search_vars, pipe_vars, episode_vars, job_vars>>

Next_Naming == Rename

SpecNaming == Init_Naming /\ [][Next_Naming]_vars

\* C8: the rule applied to a name it produced, or to a VO file named X.en.es.mkv,
\* gives the same name again: no tag is added by a repeated run
C8_NamingIdempotent ==
  ( /\ renames >= 1
    /\ (renames >= 2 \/ endswith(lower(prev_name), s_dot_en_es \o s_dot_mkv)) ) =>
      vo_name = prev_name

(***************************************************************************)
(* extract_episode_info applied to file names built around an episode      *)
(* token                                                                   *)
(***************************************************************************)
EpisodeTokens ==
  { [text |-> w_S01E02, season |-> 1, episode |-> 2],
    [text |-> w_s01e02, season |-> 1, episode |-> 2],
    [text |-> w_S12E103, season |-> 12, episode |-> 103],
    [text |-> w_1x02, season |-> 1, episode |-> 2],
    [text |-> w_12x103, season |-> 12, episode |-> 103] }

TokenSeparators == {<<".">>, <<" ">>, <<"-">>, <<"_">>}

\* what precedes the token: nothing, or a series name and a separator
TokenPrefixes == {<<>>} \cup {n \o sep : n \in {w_Show, DotJoin(<<w_The, w_Show>>)}, sep \in TokenSeparators}

\* what follows the token: nothing, or a separator and more text
TokenSuffixes == {<<>>} \cup {sep \o t : sep \in TokenSeparators, t \in {s_en, w_720p}}

Init_Episode ==
  /\ SearchUnused /\ PipeUnused /\ NamingUnused /\ JobUnused
  /\ disk = {} /\ zero_size = {} /\ dirs = {d_root, d_m}
  /\ \E pre \in TokenPrefixes, tok \in EpisodeTokens, suf \in TokenSuffixes :
       /\ e_file = join(d_m, pre \o tok.text \o suf \o s_dot_mkv)
       /\ e_season = tok.season
       /\ e_episode = tok.episode
  /\ e_info = NoInfo
  /\ e_pc = "start"

\* lines 156-218: info = extract_episode_info(e_file)
Extract ==
  /\ e_pc = "start"
  /\ e_info' = extract_episode_info(e_file)
  /\ e_pc' = "done"
  /\ UNCHANGED <<fs_vars, search_vars, pipe_vars, naming_vars, job_vars, e_file, e_season, e_episode>>

Next_Episode == Extract

SpecEpisode == Init_Episode /\ [][Next_Episode]_vars

\* C9: a file name with an S<season>E<episode> or <season>x<episode> token gives that
\* season and episode, with or without a series name before the token, with or without
\* text after it, and with any separator around it
C9_TokenAlwaysRecognised ==
  e_pc = "done" =>
    (e_info.found /\ e_info.season_num = e_season /\ e_info.episode_num = e_episode)

(***************************************************************************)
(* search_for_vo_and_es_files on a tree of movie files: files with and     *)
(* without language markers, in directories with and without role words,   *)
(* inside and outside the media root                                       *)
(***************************************************************************)
d_m_vo == <<"/","m","/","v","o">>
\* /m/../mx: a path that leaves the media root through '..'
d_m_up_mx == <<"/","m","/",".",".","/","m","x">>

w_Movie_paren == <<"M","o","v","i","e"," ","(","2","0","2","0",")">>

\* /m/Movie (2020).vo.avi and /m/Movie.2020.es.mkv: a movie without episode tokens
T_paren_vo == join(d_m, DotJoin(<<w_Movie_paren, s_vo, w_avi>>))
T_flat_es == join(d_m, DotJoin(<<w_Movie, w_2020, s_es, w_mkv>>))
\* files without a language marker in /m/es and /m/vo
T_es_plain == join(d_m_es, DotJoin(<<w_Movie, w_2020, w_mkv>>))
T_vo_plain == join(d_m_vo, DotJoin(<<w_Movie, w_2020, w_mkv>>))
\* files whose marker disagrees with the directory
T_es_en == join(d_m_es, DotJoin(<<w_Movie, w_2020, s_en, w_mkv>>))
T_vo_es == join(d_m_vo, DotJoin(<<w_Movie, w_2020, s_es, w_mkv>>))
\* /m/Movie.2020.en.es.mkv: both markers
T_both == join(d_m, DotJoin(<<w_Movie, w_2020, s_en, s_es, w_mkv>>))
\* /mx/Movie.2020.es.mkv: outside the media root
T_outside == join(d_mx, DotJoin(<<w_Movie, w_2020, s_es, w_mkv>>))

TreeUniverse ==
  {T_paren_vo, T_flat_es, F_movie, T_es_plain, T_vo_plain, T_es_en, T_vo_es, T_both, T_outside}

TreeDirs == {d_root, d_m, d_m_es, d_m_vo, d_mx}

TreePathChoices ==
  { <<>>, <<d_mx>>, <<d_m_up_mx>>, <<d_m>>, <<d_mx, d_m>>, <<d_m_up_mx, d_m_vo>> }

Init_Tree ==
  /\ disk \in {d \in SUBSET TreeUniverse : Cardinality(d) <= MaxFiles}
  /\ zero_size = {}
  /\ dirs = TreeDirs
  /\ search_paths \in TreePathChoices
  /\ series = None /\ season = NoNum
  /\ s_pc = "start"
  /\ SearchIdle
  /\ second_run = FALSE
  /\ first_result = <<>>
  /\ PipeUnused /\ NamingUnused /\ EpisodeUnused /\ JobUnused

SpecTree == Init_Tree /\ [][Next_Search]_vars

\* C11: a VO and an ES file without episode tokens are paired by the fuzzy phase under
\* the VO file's base name without extension; Movie (2020).vo.avi and Movie.2020.es.mkv,
\* alone under a searched root, give that one pair
C11_FuzzyPairsMovie ==
  s_pc = "returned" =>
    /\ \A i \in 1..Len(matched_files) :
         ~extract_episode_info(matched_files[i].val.vo).found =>
           matched_files[i].key = splitext(basename(matched_files[i].val.vo))[1]
    /\ (disk = {T_paren_vo, T_flat_es} /\ d_m \in Range(valid_search_paths)) =>
         matched_files = << [key |-> splitext(basename(T_paren_vo))[1],
                             val |-> [vo |-> T_paren_vo, es |-> T_flat_es]] >>

(***************************************************************************)
(* Properties of the discovery loop                                        *)
(***************************************************************************)
\* the files of the tree below a valid search path
walked_files ==
  {f \in disk : \E i \in 1..Len(valid_search_paths) :
                  startswith(f, valid_search_paths[i] \o <<"/">>)}

\* the list the walk put a file on
listed_role(f) ==
  IF f \in Range(vo_files) THEN (IF f \in Range(es_files) THEN "both" ELSE "vo")
  ELSE IF f \in Range(es_files) THEN "es" ELSE "none"

\* a directory path holds a VO word (english, vo, original), an ES word (spanish, es,
\* espanol with tilde)
has_vo_word(root) ==
  Contains(lower(root), s_english) \/ Contains(lower(root), s_vo) \/ Contains(lower(root), s_original)

has_es_word(root) ==
  Contains(lower(root), s_spanish) \/ Contains(lower(root), s_es) \/ Contains(lower(root), s_espanol)

\* the role the ordered fallback gives a file ("either": the file name carries markers
\* of both languages)
fallback_role(root, file) ==
  IF matches_vo_patterns(file) /\ matches_es_patterns(file) THEN "either"
  ELSE IF matches_vo_patterns(file) THEN "vo"
  ELSE IF matches_es_patterns(file) THEN "es"
  ELSE IF has_vo_word(root) THEN "vo"
  ELSE IF has_es_word(root) THEN "es"
  ELSE "vo"

\* C12: a marker in the file name decides the role, the directory names are consulted
\* only when the file name has no marker, and a file without marker in a directory
\* without role word is VO; every video file walked is put on exactly one list
C12_RoleFallback ==
  s_pc = "walked" =>
    \A f \in walked_files :
      /\ listed_role(f) \in {"vo", "es"}
      /\ fallback_role(dirname(f), basename(f)) # "either" =>
           listed_role(f) = fallback_role(dirname(f), basename(f))

\* a walk that found a marked file in a directory of the other role, and an unmarked
\* file in /m/es
C12_Witness ==
  /\ s_pc = "walked"
  /\ T_vo_es \in Range(es_files)
  /\ T_es_en \in Range(vo_files)
  /\ T_es_plain \in Range(es_files)
  /\ F_movie \in Range(vo_files)

\* the paths validate_and_cleanup may delete: es_file, and vo_file when it was passed
\* and is not the output file
deletable_paths ==
  {es_file} \cup (IF Truthy(v_vo_file) /\ v_vo_file # output_file THEN {v_vo_file} ELSE {})

C14_MkvReturnedUnchanged ==
  (mode = "merge" /\ p_pc # "start") =>
    IF endswith(lower(vo_file), s_dot_mkv)
    THEN /\ vo_mkv = vo_file
         /\ \A i \in 1..Len(calls) : calls[i].tool # "ffmpeg -c copy" \/ calls[i].path # vo_file
    ELSE /\ Truthy(vo_mkv) => vo_mkv = splitext(vo_file)[1] \o s_dot_mkv
         /\ vo_file \in disk =>
              (calls # <<>> /\ calls[1].tool = "ffmpeg -c copy"
               /\ calls[1].path = splitext(vo_file)[1] \o s_dot_mkv)

\* C15: when the merge tool is run with a destination directory given, that directory
\* exists and the output path lies in it; without a destination the output path lies in
\* the directory of the VO file
C15_DestinationUsed ==
  \A i \in 1..Len(calls) :
    calls[i].tool = "ffmpeg -map" =>
      IF Truthy(destination_path)
      THEN destination_path \in dirs /\ dirname(calls[i].path) = destination_path
      ELSE dirname(calls[i].path) = dirname(vo_mkv)

\* C16: no external tool is run on a path outside the media root: every path a remux, a
\* merge or a probe of a pair is given lies within it, and a pair with a VO or ES path
\* outside fails without any external call
C16_SandboxBeforeTools ==
  mode = "merge" =>
    /\ \A i \in 1..Len(calls) :
         calls[i].tool \in {"ffmpeg -c copy", "ffmpeg -map", "ffprobe"} =>
           is_path_allowed(calls[i].path)
    /\ (~is_path_allowed(vo_file) \/ ~is_path_allowed(es_file)) => calls = <<>>

\* C17: a deletion that fails makes validate_and_cleanup return failure: the call ends
\* with the result False, it does not raise
C17_DeletionErrorIsFailure ==
  (\E i \in 1..Len(calls) : calls[i].tool = "os.remove" /\ calls[i].exit = "error") =>
    (p_pc = "done" /\ ~success)

\* the components of a path with '.' dropped and '..' taking back the component before
RECURSIVE ResolveDots(_, _)
ResolveDots(comps, acc) ==
  IF comps = <<>> THEN acc
  ELSE IF Head(comps) = s_dot THEN ResolveDots(Tail(comps), acc)
  ELSE IF Head(comps) = s_dotdot
       THEN ResolveDots(Tail(comps), IF acc = <<>> THEN acc ELSE SubSeq(acc, 1, Len(acc) - 1))
  ELSE ResolveDots(Tail(comps), Append(acc, Head(comps)))

\* the place a path names is the media root or lies beneath it
HasRootComps(comps, root_comps) ==
  Len(comps) >= Len(root_comps) /\ SubSeq(comps, 1, Len(root_comps)) = root_comps

beneath_media_root(path) ==
  HasRootComps(ResolveDots(SplitSlash(path), <<>>), SplitSlash(MediaRoot))

\* C18: a root is kept exactly when it names the media root or a place beneath it; the
\* walk happens only when a root is kept and every file it finds lies beneath a kept
\* root, hence beneath the media root; when no root is kept the call returns the empty
\* mapping
C18_OnlyValidRootsWalked ==
  /\ \A i \in 1..Len(search_paths) :
       (search_paths[i] \in Range(valid_search_paths)) <=> beneath_media_root(search_paths[i])
  /\ s_pc \in {"walked", "exact"} =>
       /\ \E i \in 1..Len(search_paths) : beneath_media_root(search_paths[i])
       /\ \A f \in Range(vo_files) \cup Range(es_files) :
            /\ beneath_media_root(f)
            /\ \E i \in 1..Len(search_paths) :
                 beneath_media_root(search_paths[i]) /\ startswith(f, search_paths[i] \o <<"/">>)
  /\ s_pc = "returned" =>
       /\ \A i \in 1..Len(matched_files) :
            beneath_media_root(matched_files[i].val.vo) /\ beneath_media_root(matched_files[i].val.es)
       /\ (\A i \in 1..Len(search_paths) : ~beneath_media_root(search_paths[i])) =>
            matched_files = <<>>

\* a search of /mx and /m, with a file in each, walked /m only
C18_Witness ==
  /\ s_pc = "walked"
  /\ search_paths = <<d_mx, d_m>>
  /\ T_outside \in disk
  /\ T_flat_es \in Range(es_files)

(***************************************************************************)
(* The batch job runner: submit registers a job and starts its worker; the *)
(* worker feeds the pairs of the batch, one after another, through the     *)
(* sandbox check and process_file_pair; status queries read the registry   *)
(***************************************************************************)
MaxPairs == 2

\* a pair inside the media root, one whose VO file is outside, one whose ES file is outside
P_inside == [vo |-> F_movie_avi, es |-> F_movie_es]
P_vo_outside == [vo |-> F_outside_avi, es |-> F_movie_es]
P_es_outside == [vo |-> F_movie_avi, es |-> T_outside]

PairChoices == {P_inside, P_vo_outside, P_es_outside}

\* MaxPairs pairs, all inside the media root but the one at position k (none for k = 0)
Batch(k, outside) == [i \in 1..MaxPairs |-> IF i = k THEN outside ELSE P_inside]

\* the batches a job is submitted with: no pair, pairs that all pass the sandbox check,
\* a first pair whose VO file fails it, a last pair whose ES file fails it
BatchChoices ==
  {<<>>, Batch(0, P_inside), Batch(1, P_vo_outside), Batch(MaxPairs, P_es_outside)}

\* both paths of the pair lie within the media root
pair_allowed(pair) == is_path_allowed(pair.vo) /\ is_path_allowed(pair.es)

\* the pairs a batch can hold that pass the check
AllowedPairs == {pair \in PairChoices : pair_allowed(pair)}

\* lines 609-635: process_file_pair returns (True, output), returns (False, None), or lets
\* the OSError of os.remove (lines 596, 601) through
process_file_pair_outcomes == {"success", "failed", "raised"}

\* the record appended for a pair
MergeResult(pair, outcome) ==
  [vo_path |-> pair.vo, es_path |-> pair.es, success |-> (outcome = "success"),
   message |-> outcome]

\* processed_count / file_count * 100, a float: the fraction num / den
progress_of(processed_count, file_count) ==
  [num |-> processed_count * 100, den |-> file_count]

\* the status a job is left in when the pipeline raised
status_after_exception_failed == "failed"

status_after_exception == "completed"

\* the error field a job is left with when the pipeline raised
error_after_exception_unset == None

error_after_exception == <<"e","r","r","o","r">>

Init_Job ==
  /\ SearchUnused /\ PipeUnused /\ NamingUnused /\ EpisodeUnused
  /\ disk = {} /\ zero_size = {} /\ dirs = {d_root, d_m}
  /\ JobUnused

job_frame == <<fs_vars, search_vars, pipe_vars, naming_vars, episode_vars, clock, submits>>

\* submit(pairs) -> job_id: the job is registered under an id no job holds, and its
\* worker is started
Submit(j, pairs) ==
  /\ jobs[j].status = "absent"
  /\ jobs' = [jobs EXCEPT ![j] =
                [status |-> "starting", file_count |-> Len(pairs), processed_count |-> 0,
                 progress_percent |-> ZeroProgress, results |-> <<>>, error |-> None]]
  /\ worker' = [worker EXCEPT ![j] = [pc |-> "start", pairs |-> pairs, idx |-> 1, outcome |-> "none"]]
  /\ UNCHANGED <<seen, job_frame>>

\* the worker begins: starting -> processing
WorkerStart(j) ==
  /\ worker[j].pc = "start"
  /\ jobs' = [jobs EXCEPT ![j].status = "processing"]
  /\ worker' = [worker EXCEPT ![j].pc = "loop"]
  /\ UNCHANGED <<seen, job_frame>>

\* the next pair: a pair with a path outside the media root fails without any tool
WorkerCheck(j) ==
  /\ worker[j].pc = "loop"
  /\ worker[j].idx <= Len(worker[j].pairs)
  /\ IF worker[j].pairs[worker[j].idx] \in AllowedPairs
       THEN worker' = [worker EXCEPT ![j].pc = "tools"]
       ELSE worker' = [worker EXCEPT ![j].pc = "append", ![j].outcome = "sandbox"]
  /\ UNCHANGED <<jobs, seen, job_frame>>

\* the blocking call of process_file_pair returns or raises
WorkerRunTools(j) ==
  /\ worker[j].pc = "tools"
  /\ \E outcome \in process_file_pair_outcomes :
       IF outcome = "raised"
         THEN worker' = [worker EXCEPT ![j].pc = "raised"]
         ELSE worker' = [worker EXCEPT ![j].pc = "append", ![j].outcome = outcome]
  /\ UNCHANGED <<jobs, seen, job_frame>>

\* an uncaught pipeline exception: processing -> completed with the error set
WorkerException(j) ==
  /\ worker[j].pc = "raised"
  /\ jobs' = [jobs EXCEPT ![j].status = status_after_exception, ![j].error = error_after_exception]
  /\ worker' = [worker EXCEPT ![j].pc = "finished"]
  /\ UNCHANGED <<seen, job_frame>>

\* one MergeResult is appended for the pair
WorkerAppend(j) ==
  /\ worker[j].pc = "append"
  /\ jobs' = [jobs EXCEPT ![j].results =
                Append(@, MergeResult(worker[j].pairs[worker[j].idx], worker[j].outcome))]
  /\ worker' = [worker EXCEPT ![j].pc = "count"]
  /\ UNCHANGED <<seen, job_frame>>

\* processed_count and progress_percent are updated after the pair
WorkerCount(j) ==
  /\ worker[j].pc = "count"
  /\ jobs' = [jobs EXCEPT ![j].processed_count = @ + 1,
                          ![j].progress_percent =
                             progress_of(jobs[j].processed_count + 1, jobs[j].file_count)]
  /\ worker' = [worker EXCEPT ![j].pc = "loop", ![j].idx = @ + 1, ![j].outcome = "none"]
  /\ UNCHANGED <<seen, job_frame>>

\* every pair was handled: processing -> completed
WorkerFinish(j) ==
  /\ worker[j].pc = "loop"
  /\ worker[j].idx > Len(worker[j].pairs)
  /\ jobs' = [jobs EXCEPT ![j].status = "completed"]
  /\ worker' = [worker EXCEPT ![j].pc = "finished"]
  /\ UNCHANGED <<seen, job_frame>>

\* get(job_id) -> Job snapshot | not-found: the status the caller is told
StatusQuery(j) ==
  /\ seen' = [job_id |-> j, status |-> jobs[j].status]
  /\ seen' # seen
  /\ UNCHANGED <<jobs, worker, job_frame>>

\* the steps of the worker of job j
Worker(j) ==
  \/ WorkerStart(j)
  \/ WorkerCheck(j)
  \/ WorkerRunTools(j)
  \/ WorkerException(j)
  \/ WorkerAppend(j)
  \/ WorkerCount(j)
  \/ WorkerFinish(j)

Next_Job ==
  \E j \in JobIds :
    \/ \E pairs \in BatchChoices : Submit(j, pairs)
    \/ Worker(j)
    \/ StatusQuery(j)

SpecJob == Init_Job /\ [][Next_Job]_vars

\* every started worker keeps being scheduled, and the blocking tool calls return
SpecJobFair == SpecJob /\ \A j \in JobIds : WF_vars(Worker(j))

\* the pairs the worker of job j has handled
handled(j) == worker[j].idx - 1

\* C19: a batch records exactly one result per submitted pair whatever the pair's
\* outcome: after k pairs were handled the job has k results and processed_count = k,
\* the i-th result is that of the i-th pair, a pair outside the media root is recorded
\* as failed, and a job that left the worker has a result for every submitted pair
C19_OneResultPerPair ==
  \A j \in JobIds :
    /\ worker[j].pc \in {"loop", "tools", "finished"} =>
         (Len(jobs[j].results) = handled(j) /\ jobs[j].processed_count = handled(j))
    /\ \A i \in 1..Len(jobs[j].results) :
         /\ jobs[j].results[i].vo_path = worker[j].pairs[i].vo
         /\ jobs[j].results[i].es_path = worker[j].pairs[i].es
         /\ ~pair_allowed(worker[j].pairs[i]) => ~jobs[j].results[i].success
    /\ worker[j].pc = "finished" =>
         (Len(jobs[j].results) = jobs[j].file_count /\ jobs[j].processed_count = jobs[j].file_count)

\* C20: every submitted job eventually reaches status completed, whatever the outcomes
\* of its pairs and however its worker is interleaved with other workers and queries
C20_EveryJobCompletes ==
  \A j \in JobIds : (jobs[j].status # "absent") ~> (jobs[j].status = "completed")

\* a job completed with every pair failed while the other job is still being processed
\* and a status query was answered in between
C20_Witness ==
  \E j \in JobIds, k \in JobIds :
    /\ j # k
    /\ jobs[j].status = "completed"
    /\ jobs[j].file_count = MaxPairs
    /\ Len(jobs[j].results) = MaxPairs
    /\ \A i \in 1..Len(jobs[j].results) : ~jobs[j].results[i].success
    /\ jobs[k].status = "processing"
    /\ jobs[k].processed_count > 0
    /\ seen.job_id = k

\* the status changes the runner makes
RunnerTransitions ==
  {<<"absent", "starting">>, <<"starting", "processing">>, <<"processing", "completed">>}

\* C21: the status of a job only follows starting -> processing -> completed; once a
\* job is completed none of its fields changes; a pipeline exception takes the job from
\* processing to completed with the error set; the status failed is never reached
C21_StatusMachine ==
  /\ [][\A j \in JobIds :
          /\ (jobs'[j].status # jobs[j].status) =>
               (<<jobs[j].status, jobs'[j].status>> \in RunnerTransitions)
          /\ (jobs[j].status = "completed") => (jobs'[j] = jobs[j])
          /\ (worker[j].pc = "raised" /\ worker'[j].pc # "raised") =>
               (jobs[j].status = "processing" /\ jobs'[j].status = "completed"
                /\ jobs'[j].error # None)]_vars
  /\ [](\A j \in JobIds :
          /\ jobs[j].status # "failed"
          /\ (jobs[j].error # None) => (jobs[j].status = "completed"))

\* a job was completed by the exception path, and a status query was answered afterwards
C21_Witness ==
  \E j \in JobIds :
    /\ jobs[j].status = "completed"
    /\ jobs[j].error # None
    /\ worker[j].pc = "finished"
    /\ seen = [job_id |-> j, status |-> "completed"]

\* comparison of two floats given as fractions with positive denominators
FloatLeq(a, b) == a.num * b.den <= b.num * a.den

FloatEq(a, b) == a.num * b.den = b.num * a.den

\* 100.0
Hundred == [num |-> 100, den |-> 1]

\* the progress of a registered job never decreases
progress_never_decreases ==
  [][\A j \in JobIds :
       (jobs[j].status # "absent") =>
         FloatLeq(jobs[j].progress_percent, jobs'[j].progress_percent)]_vars

job_id_at(t) == IF t = 1 THEN "job_1" ELSE "job_2"

\* the ticks from t on whose id no job of the registry holds
free_ticks_from(t) ==
  {i \in t..Cardinality(JobIds) : jobs[job_id_at(i)].status = "absent"}

\* the collision check: the first id from tick t on that the registry does not hold
collision_checked_id(t) ==
  job_id_at(CHOOSE i \in free_ticks_from(t) : \A k \in free_ticks_from(t) : i <= k)

Init_Submit ==
  /\ SearchUnused /\ PipeUnused /\ NamingUnused /\ EpisodeUnused
  /\ disk = {} /\ zero_size = {} /\ dirs = {d_root, d_m}
  /\ JobUnused

submit_frame == <<seen, fs_vars, search_vars, pipe_vars, naming_vars, episode_vars>>

\* the timestamp moves on
Tick ==
  /\ clock < Cardinality(JobIds)
  /\ clock' = clock + 1
  /\ UNCHANGED <<jobs, worker, submits, submit_frame>>

\* submit(pairs), first half: the id is derived from the timestamp and checked against
\* the registry
SubmitGenerate(s, pairs) ==
  /\ submits[s].pc = "idle"
  /\ free_ticks_from(clock) # {}
  /\ submits' = [submits EXCEPT ![s] =
                   [pc |-> "checked", job_id |-> collision_checked_id(clock), pairs |-> pairs]]
  /\ UNCHANGED <<jobs, worker, clock, submit_frame>>

\* submit(pairs), second half: the job is put into the registry under the id, its worker
\* is started and the id is returned
SubmitInsert(s) ==
  /\ submits[s].pc = "checked"
  /\ jobs' = [jobs EXCEPT ![submits[s].job_id] =
                [status |-> "starting", file_count |-> Len(submits[s].pairs),
                 processed_count |-> 0, progress_percent |-> ZeroProgress,
                 results |-> <<>>, error |-> None]]
  /\ worker' = [worker EXCEPT ![submits[s].job_id] =
                  [pc |-> "start", pairs |-> submits[s].pairs, idx |-> 1, outcome |-> "none"]]
  /\ submits' = [submits EXCEPT ![s].pc = "done"]
  /\ UNCHANGED <<clock, submit_frame>>

Next_Submit ==
  \/ Tick
  \/ \E s \in Submitters, pairs \in BatchChoices : SubmitGenerate(s, pairs)
  \/ \E s \in Submitters : SubmitInsert(s)

SpecSubmit == Init_Submit /\ [][Next_Submit]_vars

\* C23: job ids are unique: whatever the interleaving of the submit calls, and also
\* when two of them fall into the same timestamp tick, no two calls return the same
\* id, and the job a call registered is the one the registry holds under its id
C23_UniqueJobIds ==
  \A s \in Submitters, t \in Submitters :
    /\ (s # t /\ submits[s].pc = "done" /\ submits[t].pc = "done") =>
         (submits[s].job_id # submits[t].job_id)
    /\ (submits[s].pc = "done") =>
         (jobs[submits[s].job_id].file_count = Len(submits[s].pairs))

\* C24: the fields of a registered job are only written by steps of its own worker, and
\* a status query never reads a job whose processed_count, progress_percent and number
\* of results disagree with one another
C24_QueriesSeeConsistentJobs ==
  [][\A j \in JobIds :
       /\ (jobs[j].status # "absent" /\ jobs'[j] # jobs[j]) => (worker'[j] # worker[j])
       /\ StatusQuery(j) =>
            /\ jobs[j].processed_count = Len(jobs[j].results)
            /\ jobs[j].progress_percent.num * jobs[j].file_count =
                 jobs[j].processed_count * 100 * jobs[j].progress_percent.den]_vars

(***************************************************************************)
(* extract_episode_info on names that carry tokens of several patterns     *)
(***************************************************************************)
w_0x07 == <<"0","x","0","7">>
w_Episode_4 == <<"E","p","i","s","o","d","e"," ","4">>
d_season_3 == <<"/","m","/","S","e","a","s","o","n"," ","3">>

NoToken == [text |-> <<>>, season |-> NoNum, episode |-> NoNum]

\* tokens of pattern (1), S<season>E<episode>
StandardTokens ==
  { [text |-> w_S01E02, season |-> 1, episode |-> 2],
    [text |-> w_S00E05, season |-> 0, episode |-> 5],
    [text |-> w_S12E103, season |-> 12, episode |-> 103] }

\* tokens of pattern (2), <season>x<episode>
AltTokens ==
  { [text |-> w_1x04, season |-> 1, episode |-> 4],
    [text |-> w_0x07, season |-> 0, episode |-> 7],
    [text |-> w_12x103, season |-> 12, episode |-> 103] }

\* a name Name.<first>.<second>.720p, leaving out the tokens that are absent
TokenName(pre, first, second) ==
  DotJoin(<<pre>> \o (IF first = NoToken THEN <<>> ELSE <<first.text>>)
                  \o (IF second = NoToken THEN <<>> ELSE <<second.text>>)
                  \o <<w_720p>>)

\* the token of the earliest pattern among those present
first_pattern_token(std, alt) == IF std # NoToken THEN std ELSE alt

Init_Order ==
  /\ SearchUnused /\ PipeUnused /\ NamingUnused /\ JobUnused
  /\ disk = {} /\ zero_size = {} /\ dirs = {d_root, d_m, d_season_3}
  /\ \/ \E d \in {d_m, d_season_3}, pre \in {w_Show, DotJoin(<<w_The, w_Show>>)},
           std \in StandardTokens \cup {NoToken}, alt \in AltTokens \cup {NoToken},
           std_first \in BOOLEAN :
         /\ std # NoToken \/ alt # NoToken
         /\ e_file = join(d, (IF std_first THEN TokenName(pre, std, alt)
                                           ELSE TokenName(pre, alt, std)) \o s_dot_mkv)
         /\ e_season = first_pattern_token(std, alt).season
         /\ e_episode = first_pattern_token(std, alt).episode
     \/ /\ e_file = join(d_season_3, w_Episode_4 \o s_dot_mkv)
        /\ e_season = 3
        /\ e_episode = 4
  /\ e_info = NoInfo
  /\ e_pc = "start"

SpecOrder == Init_Order /\ [][Next_Episode]_vars

\* C25: the patterns are tried in the order S<season>E<episode>, <season>x<episode>,
\* Season <n> ... Episode <m>, and the first that matches decides the season and the
\* episode returned, also when the season it found is 0
C25_FirstMatchWins ==
  e_pc = "done" =>
    (e_info.found /\ e_info.season_num = e_season /\ e_info.episode_num = e_episode)

\* the call at position k of the log is a conversion that wrote path
is_conversion_to(k, path) ==
  /\ calls[k].tool = "ffmpeg -c copy" /\ calls[k].path = path
  /\ calls[k].exit = "ok" /\ calls[k].written

\* C26: the merge is only invoked on two inputs that end in .mkv, after every
\* normalization succeeded: an input that is not MKV was converted to the .mkv path
\* the merge reads before the merge is invoked, and no merge is invoked once a
\* normalization failed
C26_NormalizeBeforeMux ==
  \A i \in 1..Len(calls) :
    (calls[i].tool = "ffmpeg -map") =>
      /\ endswith(t_vo_mkv, s_dot_mkv) /\ endswith(es_mkv, s_dot_mkv)
      /\ \A k \in 1..(i - 1) : ~is_failed_ffmpeg(k)
      /\ ~endswith(lower(vo_file), s_dot_mkv) =>
           \E k \in 1..(i - 1) : is_conversion_to(k, t_vo_mkv)
      /\ ~endswith(lower(es_file), s_dot_mkv) =>
           \E k \in 1..(i - 1) : is_conversion_to(k, es_mkv)

\* a VO file and an ES file that are both .avi were converted, and the merge was invoked
C26_Witness ==
  /\ vo_file = F_movie_avi /\ es_file = F_es_avi
  /\ Len(calls) = 3
  /\ calls[3].tool = "ffmpeg -map"
  /\ is_conversion_to(1, t_vo_mkv) /\ is_conversion_to(2, es_mkv)

\* C27: whenever validate_and_cleanup has returned success the output file is still on
\* disk, whatever the arguments output_file, es_file and vo_file, also when es_file is
\* the output path
C27_OutputSurvivesCleanup ==
  (p_pc = "done" /\ success) => (output_file \in disk)

\* C28: after process_file_pair has succeeded no file written by a conversion to MKV
\* is left on disk
C28_NoIntermediateLeft ==
  (mode = "merge" /\ p_pc = "done" /\ success) =>
    \A k \in 1..Len(calls) :
      (calls[k].tool = "ffmpeg -c copy") => (calls[k].path \notin disk)

(***************************************************************************)
(* search_for_vo_and_es_files on a tree that holds episodes of two series  *)
(***************************************************************************)
w_Lost == <<"L","o","s","t">>

\* /m/Lost.S01E02.en.mkv, /m/es/Lost.S01E02.es.mkv, /m/es/Lost.S01E04.es.mkv
L_vo_en == join(d_m, DotJoin(<<w_Lost, w_S01E02, s_en, w_mkv>>))
L_es_es == join(d_m_es, DotJoin(<<w_Lost, w_S01E02, s_es, w_mkv>>))
L_es_e04 == join(d_m_es, DotJoin(<<w_Lost, w_S01E04, s_es, w_mkv>>))

SeriesUniverse == {F_vo_en, F_es_es, F_vo_e04, L_vo_en, L_es_es, L_es_e04}

SeriesPathChoices == {<<d_m>>, <<d_m_es>>, <<d_mx>>, <<d_m_es, d_m>>}

Init_Series ==
  /\ disk \in {d \in SUBSET SeriesUniverse : Cardinality(d) <= MaxFiles}
  /\ zero_size = {}
  /\ dirs = SearchDirs
  /\ search_paths \in SeriesPathChoices
  /\ series = None /\ season = NoNum
  /\ s_pc = "start"
  /\ SearchIdle
  /\ second_run = FALSE
  /\ first_result = <<>>
  /\ PipeUnused /\ NamingUnused /\ EpisodeUnused /\ JobUnused

SpecSeries == Init_Series /\ [][Next_Search]_vars

\* the series extract_episode_info reads from the name of a file
series_of(f) == extract_episode_info(f).series_name

\* C29: every pair of the exact phase joins a VO file and an ES file of the same series
C29_ExactPairsSameSeries ==
  (s_pc = "exact") =>
    \A i \in 1..Len(matched_files) :
      series_of(matched_files[i].val.vo) = series_of(matched_files[i].val.es)

(***************************************************************************)
(* The discovery loop on files with one marker, both markers, no marker    *)
(* and no video extension, with and without the series and season filters  *)
(***************************************************************************)
\* /m/Show.S01E02.en.srt: not a video file
C_srt == join(d_m, DotJoin(<<w_Show, w_S01E02, s_en, w_srt>>))

ClassifyUniverse ==
  {F_vo_en, F_es_es, F_merged, F_bare_es, F_movie, T_es_plain, T_both, C_srt}

Init_Classify ==
  /\ disk \in {d \in SUBSET ClassifyUniverse : Cardinality(d) <= MaxFiles}
  /\ zero_size = {}
  /\ dirs = SearchDirs
  /\ \E a \in SearchArgChoices :
       search_paths = a.search_paths /\ series = a.series /\ season = a.season
  /\ s_pc = "start"
  /\ SearchIdle
  /\ second_run = FALSE
  /\ first_result = <<>>
  /\ PipeUnused /\ NamingUnused /\ EpisodeUnused /\ JobUnused

SpecClassify == Init_Classify /\ [][Next_Search]_vars

\* a walked file with a video extension that passes the series and season filters
eligible(f) ==
  /\ f \in walked_files
  /\ is_video_file(basename(f))
  /\ passes_filters(series, season, dirname(f), basename(f))

\* the name of the file carries a marker of both languages
has_both_markers(f) == matches_vo_patterns(basename(f)) /\ matches_es_patterns(basename(f))

\* C30: every eligible file that passes the filters is on exactly one of the VO list
\* and the ES list, and a file whose name has an English and a Spanish marker is on
\* the VO list; the command-line version decides the side of a file in the same way
C30_ClassificationTotalExclusive ==
  /\ s_pc = "walked" =>
       \A f \in disk :
         eligible(f) =>
           /\ listed_role(f) \in {"vo", "es"}
           /\ has_both_markers(f) => listed_role(f) = "vo"
  /\ \A f \in disk :
       /\ legacy_file_entry(series, season, f).side \in {"vo", "es", "skip"}
       /\ (has_both_markers(f) /\ legacy_file_entry(series, season, f).side # "skip") =>
            legacy_file_entry(series, season, f).side = "vo"

\* a filtered walk that listed a file with both markers, a file with an ES marker and a
\* file without marker, and left out a file that does not pass the filter
C30_Witness ==
  /\ s_pc = "walked"
  /\ series = w_show
  /\ F_merged \in Range(vo_files)
  /\ F_es_es \in Range(es_files)
  /\ F_movie \in disk /\ ~eligible(F_movie)
  /\ listed_role(F_movie) = "none"

====
